---- MODULE Spec2Model ----
(***************************************************************************)
(* Verification model of obspec-utils: the file-like readers               *)
(* (BlockStoreReader, BufferedStoreReader, EagerStoreReader) over an       *)
(* immutable object, and the CachingReadableStore wrapper.                 *)
(***************************************************************************)
EXTENDS Integers, Sequences, FiniteSets, TLC

(***************************************************************************)
(* Bounds of the model.                                                    *)
(***************************************************************************)
MaxFileSize == 4
MaxBlockSize == 2
MaxCachedBlocks == 2
MaxBufferSize == 2
MaxRequestSize == 2
MaxConcurrent == 3
MaxBack == 2
NumPaths == 3
MaxObjSize == 2
MaxCacheSize == 2
NumWorkers == 2
MaxSplitSize == 6
MaxSplitRequests == 4
MaxTrace == 2
MaxTraceLength == 2
MaxPathLen == 4
MaxRegistrations == 2
NumThreads == 2
MaxClock == 2
MaxRequests == 3
\* The largest read size and the largest position a seek may reach.
MaxRead == MaxFileSize - 1
MaxPos == MaxFileSize + 1

\* self._size: int | None = None
NoSize == -1

VARIABLES
    reader,                 \* which reader class was constructed
    obj_size,               \* size of the (immutable) object in the store
    b_block_size, b_max_cached_blocks, b_position, b_size, b_cache,
    b_seen,                 \* history: the blocks the reads have covered
    f_buffer_size, f_position, f_size, f_buffer, f_buffer_start,
    e_request_size, e_max_concurrent_requests, e_file_size, e_state,
    e_buffer, e_pos,
    last,                   \* the last call on the reader and what it returned
    reqs,                   \* the store requests the last call issued, in order
    c_obj_size,             \* size of each object of the wrapped store
    c_max_size, c_current_size, c_path_sizes, c_cache,
    c_recency,              \* history: the cached paths by last access
    w_pc, w_call,           \* the callers of the caching wrapper
    c_last,                 \* the last call on the wrapper that returned
    c_pre,                  \* history: the cache as the async call in flight found it
    c_scope,                \* the with-block around the wrapper
    s_request_size, s_max_concurrent_requests,
    s_last,                 \* the last get on the splitting wrapper
    t_trace,                \* RequestTrace.requests
    t_last,                 \* the last call on the tracing wrapper
    r_map,                  \* ObjectStoreRegistry.map: UrlKey -> PathEntry tree
    r_last,                 \* the resolve whose result the caller holds
    r_scope,                \* the registry's async scope and the calls it made
    p_kind,                 \* which ParallelStoreReader class runs beside the block reader
    p_position, p_size, p_cache,
    p_last, p_reqs,         \* its last call and the store requests that call issued
    n_pc, n_call,           \* the threads calling one TracingReadableStore
    n_clock,                \* time.time()
    n_requests,             \* RequestTrace.requests, timestamps included
    n_callbacks,            \* the calls of on_request, in order
    k_block_size, k_max_blocks,
    k_blocks,               \* MemoryCache._blocks, least recently used first
    k_pc, k_call,           \* the async tasks calling one AsyncBlockCache
    k_last,                 \* the last get_range on a block-cache wrapper
    h_chunk_size, h_prefetch_size, h_max_cached_chunks,
    h_pos, h_cache, h_pending, h_closed,
    h_task                  \* the background prefetch task of each chunk

blockVars == <<b_block_size, b_max_cached_blocks, b_position, b_size, b_cache,
               b_seen>>
bufferedVars == <<f_buffer_size, f_position, f_size, f_buffer, f_buffer_start>>
eagerVars == <<e_request_size, e_max_concurrent_requests, e_file_size, e_state,
               e_buffer, e_pos>>
readerVars == <<reader, obj_size, blockVars, bufferedVars, eagerVars, last, reqs>>
cacheVars == <<c_obj_size, c_max_size, c_current_size, c_path_sizes, c_cache,
               c_recency, w_pc, w_call, c_last, c_pre, c_scope>>
splitVars == <<s_request_size, s_max_concurrent_requests, s_last>>
traceVars == <<t_trace, t_last>>
registryVars == <<r_map, r_last, r_scope>>
parallelVars == <<p_kind, p_position, p_size, p_cache, p_last, p_reqs>>
threadVars == <<n_pc, n_call, n_clock, n_requests, n_callbacks>>
memVars == <<k_block_size, k_max_blocks, k_blocks, k_pc, k_call, k_last>>
prefetchVars == <<h_chunk_size, h_prefetch_size, h_max_cached_chunks, h_pos,
                  h_cache, h_pending, h_closed, h_task>>
restVars == <<threadVars, memVars, prefetchVars>>
moreVars == <<parallelVars, restVars>>
extVars == <<splitVars, traceVars, registryVars, moreVars>>
vars == <<readerVars, cacheVars, extVars>>

(***************************************************************************)
(* Helpers.                                                                *)
(***************************************************************************)
Min(a, b) == IF a < b THEN a ELSE b
Max(a, b) == IF a > b THEN a ELSE b

\* Python's s[a:b] on a bytes object, negative indices included.
PyIndex(len, i) == IF i < 0 THEN Max(0, len + i) ELSE Min(i, len)
PySlice(s, a, b) ==
    LET lo == PyIndex(Len(s), a)
        hi == PyIndex(Len(s), b)
    IN  IF lo >= hi THEN <<>> ELSE SubSeq(s, lo + 1, hi)

\* The object's bytes: every offset holds a distinct value.
object_bytes == [i \in 1..obj_size |-> i]

(***************************************************************************)
(* The store the readers talk to (tests/mocks.py, MockReadableStore).      *)
(***************************************************************************)
StoreHead == Len(object_bytes)
StoreGet == object_bytes
StoreGetRange(start, length) == PySlice(object_bytes, start, start + length)
StoreGetRanges(starts, lengths) ==
    [k \in 1..Len(starts) |-> PySlice(object_bytes, starts[k], starts[k] + lengths[k])]

\* A range no store can serve: it starts at or past the end of the object or
\* has no positive length.  obstore's stores raise on such a range.
BadPart(start, length, file_size) == start >= file_size \/ length <= 0
StoreRejects(starts, lengths) ==
    \E k \in 1..Len(starts) : BadPart(starts[k], lengths[k], StoreHead)

ReqHead == [m |-> "head", starts |-> <<>>, lengths |-> <<>>]
ReqGet == [m |-> "get", starts |-> <<>>, lengths |-> <<>>]
ReqGetRange(start, length) ==
    [m |-> "get_range", starts |-> <<start>>, lengths |-> <<length>>]
ReqGetRanges(starts, lengths) ==
    [m |-> "get_ranges", starts |-> starts, lengths |-> lengths]

\* What a call on a reader did: its name, argument(s), tell() before it, and
\* its result (bytes for read/readall, the new position for seek).
Call(op, arg, whence, pre, data, val, raised) ==
    [op |-> op, arg |-> arg, whence |-> whence, pre |-> pre,
     data |-> data, val |-> val, raised |-> raised]
NoCall == Call("none", 0, 0, 0, <<>>, 0, FALSE)

\* What close() leaves of a reader's block cache (self._cache.clear()) or
\* buffer (self._buffer = b"", io.BytesIO(b"")).
KeptBuffer(buffer) == buffer
Emptied(buffer) == <<>>

\* The Call of a close() or of the __exit__ that ends a with-block.  The
\* body of the with-block raised iff exc; __exit__ returns None, so the
\* exception goes on to the caller.  val is what the reader held before.
Release(op, exc, position, held) ==
    Call(op, IF exc THEN 1 ELSE 0, 0, position, <<>>, held, exc)

ReadSizes == (0 - 2)..MaxRead
\* Arguments of seek: any absolute offset, a relative offset of a few bytes
\* either way, and whence 3 as the one invalid whence.
SeekOffsets(whence) ==
    CASE whence = 0 -> (0 - MaxBack)..MaxPos
      [] whence \in {1, 2} -> (0 - MaxBack)..MaxBack
      [] OTHER -> {0}
Whences == 0..3

(***************************************************************************)
(* _get_size of the block and buffered readers: one head() on first need.  *)
(***************************************************************************)
\* Mutant: head() is sent whether the size is cached or not.
AlwaysHead(size) == <<ReqHead>>

GetSize(size) == IF size = NoSize THEN StoreHead ELSE size
GetSizeReqs(size) == IF size = NoSize THEN <<ReqHead>> ELSE <<>>

(***************************************************************************)
(* BlockStoreReader (readers/_block.py).  The OrderedDict _cache is a      *)
(* sequence of [idx, data] entries, least recently used first.             *)
(***************************************************************************)
\* Mutant: no block is ever found in the cache.
NeverCached(cache, i) == FALSE

CacheHas(cache, i) == \E k \in 1..Len(cache) : cache[k].idx = i
CacheGet(cache, i) == cache[CHOOSE k \in 1..Len(cache) : cache[k].idx = i].data
CacheKeys(cache) == {cache[k].idx : k \in 1..Len(cache)}

\* Mutant: a touched block keeps its place.
KeepPlace(cache, i) == cache

\* OrderedDict.move_to_end(i)
MoveToEnd(cache, i) ==
    SelectSeq(cache, LAMBDA e : e.idx # i) \o <<[idx |-> i, data |-> CacheGet(cache, i)]>>

\* for i in block_indices: self._cache.move_to_end(i)
RECURSIVE MoveAllToEnd(_, _)
MoveAllToEnd(cache, indices) ==
    IF indices = <<>> THEN cache
    ELSE MoveAllToEnd(MoveToEnd(cache, Head(indices)), Tail(indices))

\* Mutant: the eviction loop stops one entry early.
RECURSIVE EvictBlocksOffByOne(_, _)
EvictBlocksOffByOne(cache, max_cached_blocks) ==
    IF Len(cache) > max_cached_blocks + 1
    THEN EvictBlocksOffByOne(Tail(cache), max_cached_blocks)
    ELSE cache

\* while len(self._cache) > self._max_cached_blocks: self._cache.popitem(last=False)
RECURSIVE EvictBlocks(_, _)
EvictBlocks(cache, max_cached_blocks) ==
    IF Len(cache) > max_cached_blocks
    THEN EvictBlocks(Tail(cache), max_cached_blocks)
    ELSE cache

\* Mutant: the fetched blocks are stored under the needed indices in
\* reverse order.
InsertBlocksSwapped(cache, needed, results) ==
    cache \o [k \in 1..Len(needed) |->
                 [idx |-> needed[Len(needed) + 1 - k], data |-> results[k]]]

\* self._cache[block_idx] = bytes(data) for the freshly fetched blocks
InsertBlocks(cache, needed, results) ==
    cache \o [k \in 1..Len(needed) |-> [idx |-> needed[k], data |-> results[k]]]

\* _get_blocks: [cache, size, reqs, blocks], blocks aligned with block_indices;
\* rejected when the store raises on the get_ranges.
GetBlocks(cache, size, block_size, max_cached_blocks, block_indices) ==
    LET needed == SelectSeq(block_indices, LAMBDA i : ~CacheHas(cache, i))
        file_size == IF needed # <<>> THEN GetSize(size) ELSE size
        starts == [k \in 1..Len(needed) |-> needed[k] * block_size]
        lengths == [k \in 1..Len(needed) |->
                      Min(starts[k] + block_size, file_size) - starts[k]]
        results == StoreGetRanges(starts, lengths)
        stored == IF needed # <<>> THEN InsertBlocks(cache, needed, results) ELSE cache
        touched == MoveAllToEnd(stored, block_indices)
        blocks == [k \in 1..Len(block_indices) |-> CacheGet(touched, block_indices[k])]
    IN  [cache |-> EvictBlocks(touched, max_cached_blocks),
         rejected |-> StoreRejects(starts, lengths),
         size |-> file_size,
         reqs |-> IF needed # <<>>
                  THEN GetSizeReqs(size) \o <<ReqGetRanges(starts, lengths)>>
                  ELSE <<>>,
         blocks |-> blocks]

\* Mutant: the first block is not cut at the read position.
BlockPartFromBlockStart(block_data, block_idx, block_size, position, end_pos) ==
    PySlice(block_data, 0, Min(Len(block_data), end_pos - block_idx * block_size))

\* The slice of block block_idx that read() writes to its result.
BlockPart(block_data, block_idx, block_size, position, end_pos) ==
    LET block_start == block_idx * block_size
        local_start == Max(0, position - block_start)
        local_end == Min(Len(block_data), end_pos - block_start)
    IN  PySlice(block_data, local_start, local_end)

RECURSIVE Concat(_)
Concat(parts) == IF parts = <<>> THEN <<>> ELSE Head(parts) \o Concat(Tail(parts))

\* Mutant: the position advances by the requested count.
AdvanceByRequested(position, data, size) == position + size

\* self._position += len(data)  (len(result) in the buffered reader)
Advance(position, data, size) == position + Len(data)

\* Mutant: the requested size is not clamped to the remaining bytes.
NoClampSize(size, remaining) == size

\* if size > remaining: size = remaining
ClampSize(size, remaining) == IF size > remaining THEN remaining ELSE size

\* read(size) of a reader at position with the given _size and _cache:
\* [data, position, size, cache, reqs, raised]
ReadFrom(n, position, size, cache, block_size, max_cached_blocks) ==
    LET file_size == GetSize(size)
        sizeReqs == GetSizeReqs(size)
        size1 == IF n = -1 THEN file_size - position ELSE n
        remaining == file_size - position
        size2 == ClampSize(size1, remaining)
    IN  IF (n = -1 /\ size1 <= 0) \/ size2 <= 0
        THEN [data |-> <<>>, position |-> position, size |-> file_size,
              cache |-> cache, reqs |-> sizeReqs, raised |-> FALSE]
        ELSE LET start_block == position \div block_size
                 end_pos == position + size2
                 end_block == (end_pos - 1) \div block_size
                 block_indices == [k \in 1..(end_block - start_block + 1) |->
                                     start_block + k - 1]
                 got == GetBlocks(cache, file_size, block_size,
                                  max_cached_blocks, block_indices)
                 data == Concat([k \in 1..Len(block_indices) |->
                                   BlockPart(got.blocks[k], block_indices[k],
                                             block_size, position, end_pos)])
             IN  IF got.rejected
                 THEN [data |-> <<>>, position |-> position, size |-> got.size,
                       cache |-> cache, reqs |-> sizeReqs \o got.reqs,
                       raised |-> TRUE]
                 ELSE [data |-> data,
                       position |-> Advance(position, data, size2),
                       size |-> got.size, cache |-> got.cache,
                       reqs |-> sizeReqs \o got.reqs, raised |-> FALSE]

\* BlockStoreReader.read(size)
BlockReadResult(n) ==
    ReadFrom(n, b_position, b_size, b_cache, b_block_size, b_max_cached_blocks)

\* The blocks read() asks _get_blocks for when it returns data from
\* position: range(start_block, end_block + 1).
BlocksOfRead(position, data, block_size) ==
    IF data = <<>> THEN {}
    ELSE (position \div block_size)..((position + Len(data) - 1) \div block_size)

\* The blocks covered by reads so far, and the cached blocks in the order
\* they were fetched; recorded only where on = TRUE.
Seen(on, blocks, inserted) == [on |-> on, blocks |-> blocks, inserted |-> inserted]
NotSeen == Seen(FALSE, {}, <<>>)

\* The indices of the cached blocks, least recently used first.
CacheOrder(cache) == [k \in 1..Len(cache) |-> cache[k].idx]

\* The history after a read that returned data from position.
SeenAfter(seen, cache, new_cache, position, data, block_size) ==
    LET touched == BlocksOfRead(position, data, block_size)
        lo == position \div block_size
        fetched == SelectSeq([k \in 1..Cardinality(touched) |-> lo + k - 1],
                             LAMBDA i : ~CacheHas(cache, i))
    IN  Seen(TRUE, seen.blocks \cup touched,
             SelectSeq(seen.inserted \o fetched, LAMBDA i : CacheHas(new_cache, i)))

BlockReadStep(n) ==
    /\ \E r \in {BlockReadResult(n)} :
           /\ b_position' = r.position
           /\ b_size' = r.size
           /\ b_cache' = r.cache
           /\ b_seen' = IF b_seen.on
                        THEN SeenAfter(b_seen, b_cache, r.cache, b_position, r.data,
                                       b_block_size)
                        ELSE b_seen
           /\ last' = Call("read", n, 0, b_position, r.data, 0, r.raised)
           /\ reqs' = r.reqs
    /\ UNCHANGED <<b_block_size, b_max_cached_blocks>>

BlockRead(n) ==
    /\ reader = "block"
    /\ BlockReadStep(n)
    /\ UNCHANGED <<reader, obj_size, bufferedVars, eagerVars, cacheVars, extVars>>

\* BlockStoreReader.readall
BlockReadAllStep ==
    /\ LET data == StoreGet
       IN  /\ b_size' = Len(data)
           /\ b_position' = Len(data)
           /\ last' = Call("readall", 0, 0, b_position, data, 0, FALSE)
           /\ reqs' = <<ReqGet>>
    /\ UNCHANGED <<b_block_size, b_max_cached_blocks, b_cache, b_seen>>

BlockReadAll ==
    /\ reader = "block"
    /\ BlockReadAllStep
    /\ UNCHANGED <<reader, obj_size, bufferedVars, eagerVars, cacheVars, extVars>>

\* The position seek() computes before clamping; whence is 0, 1 or 2.
SeekTarget(position, file_size, offset, whence) ==
    CASE whence = 0 -> offset
      [] whence = 1 -> position + offset
      [] whence = 2 -> file_size + offset

\* Mutant: a negative position is kept.
NoClampPosition(p) == p

\* if self._position < 0: self._position = 0
ClampPosition(p) == IF p < 0 THEN 0 ELSE p

\* BlockStoreReader.seek
BlockSeekStep(offset, whence) ==
    /\ IF whence \in {0, 1, 2}
       THEN LET file_size == IF whence = 2 THEN GetSize(b_size) ELSE b_size
                p == ClampPosition(SeekTarget(b_position, file_size, offset, whence))
            IN  /\ p <= MaxPos
                /\ b_position' = p
                /\ b_size' = file_size
                /\ last' = Call("seek", offset, whence, b_position, <<>>, p, FALSE)
                /\ reqs' = IF whence = 2 THEN GetSizeReqs(b_size) ELSE <<>>
       ELSE /\ last' = Call("seek", offset, whence, b_position, <<>>, 0, TRUE)
            /\ reqs' = <<>>
            /\ UNCHANGED <<b_position, b_size>>
    /\ UNCHANGED <<b_block_size, b_max_cached_blocks, b_cache, b_seen>>

BlockSeek(offset, whence) ==
    /\ reader = "block"
    /\ BlockSeekStep(offset, whence)
    /\ UNCHANGED <<reader, obj_size, bufferedVars, eagerVars, cacheVars, extVars>>

\* BlockStoreReader.close / __exit__
BlockRelease(op, exc) ==
    /\ reader = "block"
    /\ b_cache' = Emptied(b_cache)
    /\ last' = Release(op, exc, b_position, Len(b_cache))
    /\ reqs' = <<>>
    /\ b_seen' = Seen(b_seen.on, b_seen.blocks, <<>>)
    /\ UNCHANGED <<reader, obj_size, b_block_size, b_max_cached_blocks, b_position,
                   b_size, bufferedVars, eagerVars, cacheVars, extVars>>

BlockClose == BlockRelease("close", FALSE)
\* __exit__(exc_type, exc_val, exc_tb): self.close()
BlockExit(exc) == BlockRelease("exit", exc)

(***************************************************************************)
(* The ParallelStoreReader classes, each run beside a BlockStoreReader     *)
(* that is given the same calls.  readers/_block.py subclasses the block   *)
(* reader and passes chunk_size, max_cached_chunks on as block_size,       *)
(* max_cached_blocks; readers/_parallel.py repeats the block reader's code *)
(* under the legacy names; obspec.py has a reader of its own.              *)
(***************************************************************************)
ParallelKinds == {"readers._block", "readers._parallel", "obspec"}

\* obspec.py _get_size: the size is taken from the meta of a full get.
ObspecGetSizeReqs(size) == IF size = NoSize THEN <<ReqGet>> ELSE <<>>

\* obspec.py _get_chunks, the loop over zip(needed, results): each chunk is
\* inserted, moved to the end, and the cache evicted down to the bound.
RECURSIVE ObspecStoreChunks(_, _, _, _)
ObspecStoreChunks(cache, needed, results, max_cached_chunks) ==
    IF needed = <<>> THEN cache
    ELSE ObspecStoreChunks(
             EvictBlocks(MoveToEnd(cache \o <<[idx |-> Head(needed),
                                               data |-> Head(results)]>>,
                                   Head(needed)),
                         max_cached_chunks),
             Tail(needed), Tail(results), max_cached_chunks)

\* obspec.py _get_chunks; missing stands for the KeyError of
\* {i: self._cache[i] for i in chunk_indices} on an evicted chunk.
ObspecGetChunks(cache, size, chunk_size, max_cached_chunks, chunk_indices) ==
    LET needed == SelectSeq(chunk_indices, LAMBDA i : ~CacheHas(cache, i))
        file_size == IF needed # <<>> THEN GetSize(size) ELSE size
        starts == [k \in 1..Len(needed) |-> needed[k] * chunk_size]
        lengths == [k \in 1..Len(needed) |->
                      Min(starts[k] + chunk_size, file_size) - starts[k]]
        results == StoreGetRanges(starts, lengths)
        stored == ObspecStoreChunks(cache, needed, results, max_cached_chunks)
        missing == \E k \in 1..Len(chunk_indices) : ~CacheHas(stored, chunk_indices[k])
    IN  [cache |-> stored,
         rejected |-> StoreRejects(starts, lengths),
         missing |-> missing,
         size |-> file_size,
         reqs |-> IF needed # <<>>
                  THEN ObspecGetSizeReqs(size) \o <<ReqGetRanges(starts, lengths)>>
                  ELSE <<>>,
         chunks |-> IF missing THEN <<>>
                    ELSE [k \in 1..Len(chunk_indices) |->
                            CacheGet(stored, chunk_indices[k])]]

\* obspec.py ParallelStoreReader.read(size); read(-1) is readall().
ObspecReadFrom(n, position, size, cache, chunk_size, max_cached_chunks) ==
    IF n = -1
    THEN [data |-> StoreGet, position |-> Len(StoreGet), size |-> Len(StoreGet),
          cache |-> cache, reqs |-> <<ReqGet>>, raised |-> FALSE]
    ELSE
    LET file_size == GetSize(size)
        sizeReqs == ObspecGetSizeReqs(size)
        remaining == file_size - position
        size2 == ClampSize(n, remaining)
    IN  IF size2 <= 0
        THEN [data |-> <<>>, position |-> position, size |-> file_size,
              cache |-> cache, reqs |-> sizeReqs, raised |-> FALSE]
        ELSE LET start_chunk == position \div chunk_size
                 end_pos == position + size2
                 end_chunk == (end_pos - 1) \div chunk_size
                 chunk_indices == [k \in 1..(end_chunk - start_chunk + 1) |->
                                     start_chunk + k - 1]
                 got == ObspecGetChunks(cache, file_size, chunk_size,
                                        max_cached_chunks, chunk_indices)
                 data == Concat([k \in 1..Len(chunk_indices) |->
                                   BlockPart(got.chunks[k], chunk_indices[k],
                                             chunk_size, position, end_pos)])
             IN  IF got.rejected
                 THEN [data |-> <<>>, position |-> position, size |-> got.size,
                       cache |-> cache, reqs |-> sizeReqs \o got.reqs,
                       raised |-> TRUE]
                 ELSE IF got.missing
                 THEN [data |-> <<>>, position |-> position, size |-> got.size,
                       cache |-> got.cache, reqs |-> sizeReqs \o got.reqs,
                       raised |-> TRUE]
                 ELSE [data |-> data,
                       position |-> Advance(position, data, size2),
                       size |-> got.size, cache |-> got.cache,
                       reqs |-> sizeReqs \o got.reqs, raised |-> FALSE]

\* read(size) on both readers.
ParallelRead(n) ==
    /\ reader = "parallel"
    /\ BlockReadStep(n)
    /\ \E r \in {IF p_kind = "obspec"
                  THEN ObspecReadFrom(n, p_position, p_size, p_cache,
                                      b_block_size, b_max_cached_blocks)
                  ELSE ReadFrom(n, p_position, p_size, p_cache,
                                b_block_size, b_max_cached_blocks)} :
           /\ p_position' = r.position
           /\ p_size' = r.size
           /\ p_cache' = r.cache
           /\ p_last' = Call("read", n, 0, p_position, r.data, 0, r.raised)
           /\ p_reqs' = r.reqs
    /\ UNCHANGED <<reader, obj_size, bufferedVars, eagerVars, cacheVars,
                   splitVars, traceVars, registryVars, restVars, p_kind>>

\* readall() on both readers: the three classes share its code.
ParallelReadAll ==
    /\ reader = "parallel"
    /\ BlockReadAllStep
    /\ LET data == StoreGet
       IN  /\ p_size' = Len(data)
           /\ p_position' = Len(data)
           /\ p_last' = Call("readall", 0, 0, p_position, data, 0, FALSE)
           /\ p_reqs' = <<ReqGet>>
    /\ UNCHANGED <<reader, obj_size, bufferedVars, eagerVars, cacheVars,
                   splitVars, traceVars, registryVars, restVars,
                   p_kind, p_cache>>

\* seek(offset, whence) on both readers: the three classes share its code,
\* but obspec.py's _get_size sends a get.
ParallelSeek(offset, whence) ==
    /\ reader = "parallel"
    /\ BlockSeekStep(offset, whence)
    /\ IF whence \in {0, 1, 2}
       THEN LET file_size == IF whence = 2 THEN GetSize(p_size) ELSE p_size
                p == ClampPosition(SeekTarget(p_position, file_size, offset, whence))
            IN  /\ p <= MaxPos
                /\ p_position' = p
                /\ p_size' = file_size
                /\ p_last' = Call("seek", offset, whence, p_position, <<>>, p, FALSE)
                /\ p_reqs' = IF whence # 2 THEN <<>>
                             ELSE IF p_kind = "obspec" THEN ObspecGetSizeReqs(p_size)
                             ELSE GetSizeReqs(p_size)
       ELSE /\ p_last' = Call("seek", offset, whence, p_position, <<>>, 0, TRUE)
            /\ p_reqs' = <<>>
            /\ UNCHANGED <<p_position, p_size>>
    /\ UNCHANGED <<reader, obj_size, bufferedVars, eagerVars, cacheVars,
                   splitVars, traceVars, registryVars, restVars,
                   p_kind, p_cache>>

ParallelIdle ==
    /\ p_kind = "none" /\ p_position = 0 /\ p_size = NoSize /\ p_cache = <<>>
    /\ p_last = NoCall /\ p_reqs = <<>>

(***************************************************************************)
(* BufferedStoreReader (readers/_buffered.py).                             *)
(***************************************************************************)
\* fetch_size = min(max(size, self._buffer_size), remaining)
FetchSize(size, buffer_size, remaining) == Min(Max(size, buffer_size), remaining)

\* self._buffer_start <= self._position < buffer_end and available >= size
ServedFromBuffer(position, buffer_start, buffer, size) ==
    /\ buffer_start <= position
    /\ position < buffer_start + Len(buffer)
    /\ Len(buffer) - (position - buffer_start) >= size

\* if self._position >= file_size: return b""
AtEOF(position, file_size) == position >= file_size

\* BufferedStoreReader.read(size): [data, position, size, buffer, buffer_start, reqs]
BufferedReadResult(n) ==
    LET size0 == IF n = -1 THEN GetSize(f_size) ELSE f_size
        reqs0 == IF n = -1 THEN GetSizeReqs(f_size) ELSE <<>>
        size == IF n = -1 THEN size0 - f_position ELSE n
    IN  IF n = -1 /\ size <= 0
        THEN [data |-> <<>>, position |-> f_position, size |-> size0,
              buffer |-> f_buffer, buffer_start |-> f_buffer_start, reqs |-> reqs0,
              raised |-> FALSE]
        ELSE IF ServedFromBuffer(f_position, f_buffer_start, f_buffer, size)
        THEN LET buffer_offset == f_position - f_buffer_start
                 data == PySlice(f_buffer, buffer_offset, buffer_offset + size)
             IN  [data |-> data, position |-> Advance(f_position, data, size),
                  size |-> size0,
                  buffer |-> f_buffer, buffer_start |-> f_buffer_start,
                  reqs |-> reqs0, raised |-> FALSE]
        ELSE LET file_size == GetSize(size0)
                 reqs1 == reqs0 \o GetSizeReqs(size0)
             IN  IF AtEOF(f_position, file_size)
                 THEN [data |-> <<>>, position |-> f_position, size |-> file_size,
                       buffer |-> f_buffer, buffer_start |-> f_buffer_start,
                       reqs |-> reqs1, raised |-> FALSE]
                 ELSE LET remaining == file_size - f_position
                          fetch_size == FetchSize(size, f_buffer_size, remaining)
                          data == StoreGetRange(f_position, fetch_size)
                          result == PySlice(data, 0, size)
                          req == ReqGetRange(f_position, fetch_size)
                      IN  IF StoreRejects(req.starts, req.lengths)
                          THEN [data |-> <<>>, position |-> f_position,
                                size |-> file_size, buffer |-> f_buffer,
                                buffer_start |-> f_buffer_start,
                                reqs |-> reqs1 \o <<req>>, raised |-> TRUE]
                          ELSE [data |-> result,
                                position |-> Advance(f_position, result, size),
                                size |-> file_size, buffer |-> data,
                                buffer_start |-> f_position,
                                reqs |-> reqs1 \o <<req>>, raised |-> FALSE]

BufferedRead(n) ==
    /\ reader = "buffered"
    /\ \E r \in {BufferedReadResult(n)} :
           /\ f_position' = r.position
           /\ f_size' = r.size
           /\ f_buffer' = r.buffer
           /\ f_buffer_start' = r.buffer_start
           /\ last' = Call("read", n, 0, f_position, r.data, 0, r.raised)
           /\ reqs' = r.reqs
    /\ UNCHANGED <<reader, obj_size, f_buffer_size, blockVars, eagerVars, cacheVars, extVars>>

\* BufferedStoreReader.readall
BufferedReadAll ==
    /\ reader = "buffered"
    /\ LET data == StoreGet
       IN  /\ f_size' = Len(data)
           /\ f_position' = Len(data)
           /\ last' = Call("readall", 0, 0, f_position, data, 0, FALSE)
           /\ reqs' = <<ReqGet>>
    /\ UNCHANGED <<reader, obj_size, f_buffer_size, f_buffer, f_buffer_start,
                   blockVars, eagerVars, cacheVars, extVars>>

\* BufferedStoreReader.seek
BufferedSeek(offset, whence) ==
    /\ reader = "buffered"
    /\ IF whence \in {0, 1, 2}
       THEN LET file_size == IF whence = 2 THEN GetSize(f_size) ELSE f_size
                p == ClampPosition(SeekTarget(f_position, file_size, offset, whence))
            IN  /\ p <= MaxPos
                /\ f_position' = p
                /\ f_size' = file_size
                /\ last' = Call("seek", offset, whence, f_position, <<>>, p, FALSE)
                /\ reqs' = IF whence = 2 THEN GetSizeReqs(f_size) ELSE <<>>
       ELSE /\ last' = Call("seek", offset, whence, f_position, <<>>, 0, TRUE)
            /\ reqs' = <<>>
            /\ UNCHANGED <<f_position, f_size>>
    /\ UNCHANGED <<reader, obj_size, f_buffer_size, f_buffer, f_buffer_start,
                   blockVars, eagerVars, cacheVars, extVars>>

\* BufferedStoreReader.close / __exit__
BufferedRelease(op, exc) ==
    /\ reader = "buffered"
    /\ f_buffer' = Emptied(f_buffer)
    /\ f_buffer_start' = 0
    /\ last' = Release(op, exc, f_position, Len(f_buffer))
    /\ reqs' = <<>>
    /\ UNCHANGED <<reader, obj_size, f_buffer_size, f_position, f_size,
                   blockVars, eagerVars, cacheVars, extVars>>

BufferedClose == BufferedRelease("close", FALSE)
\* __exit__(exc_type, exc_val, exc_tb): self.close()
BufferedExit(exc) == BufferedRelease("exit", exc)

(***************************************************************************)
(* EagerStoreReader (readers/_eager.py).  Its buffer is an io.BytesIO:     *)
(* e_buffer holds the bytes and e_pos the BytesIO position.                *)
(***************************************************************************)
\* num_requests = (file_size + request_size - 1) // request_size
CeilDiv(a, b) == (a + b - 1) \div b

\* Mutant: the number of requests is not capped at max_concurrent_requests.
EagerPlanUncapped(file_size, request_size, max_concurrent_requests) ==
    LET num_requests == CeilDiv(file_size, request_size)
        starts == [k \in 1..num_requests |-> (k - 1) * request_size]
        lengths == [k \in 1..num_requests |->
                      Min(request_size, file_size - starts[k])]
    IN  [num_requests |-> num_requests, starts |-> starts, lengths |-> lengths]

\* The parts __init__ computes: [num_requests, starts, lengths].
EagerPlan(file_size, request_size, max_concurrent_requests) ==
    LET n0 == CeilDiv(file_size, request_size)
        capped == n0 > max_concurrent_requests
        num_requests == IF capped THEN max_concurrent_requests ELSE n0
        part_size == IF capped THEN CeilDiv(file_size, num_requests) ELSE request_size
        starts == [k \in 1..num_requests |-> (k - 1) * part_size]
        lengths == [k \in 1..num_requests |->
                      Min(part_size, file_size - starts[k])]
    IN  [num_requests |-> num_requests, starts |-> starts, lengths |-> lengths]

\* EagerStoreReader.__init__.  A get_ranges holding a bad part either raises
\* (obstore) or yields b"" for that part (tests/mocks.py): both can happen.
EagerInit ==
    /\ reader = "eager"
    /\ e_state = "new"
    /\ LET file_size == IF e_file_size = NoSize THEN StoreHead ELSE e_file_size
           headReqs == IF e_file_size = NoSize THEN <<ReqHead>> ELSE <<>>
           plan == EagerPlan(file_size, e_request_size, e_max_concurrent_requests)
           bad == StoreRejects(plan.starts, plan.lengths)
       IN  IF file_size = 0
           THEN /\ e_buffer' = <<>>
                /\ e_state' = "open"
                /\ reqs' = headReqs
                /\ last' = Call("init", 0, 0, 0, <<>>, 0, FALSE)
           ELSE IF plan.num_requests = 1
           THEN /\ e_buffer' = StoreGet
                /\ e_state' = "open"
                /\ reqs' = headReqs \o <<ReqGet>>
                /\ last' = Call("init", 0, 0, 0, <<>>, 0, FALSE)
           ELSE /\ reqs' = headReqs \o <<ReqGetRanges(plan.starts, plan.lengths)>>
                /\ \/ /\ e_buffer' = Concat(StoreGetRanges(plan.starts, plan.lengths))
                      /\ e_state' = "open"
                      /\ last' = Call("init", 0, 0, 0, <<>>, 0, FALSE)
                   \/ /\ bad
                      /\ e_buffer' = <<>>
                      /\ e_state' = "failed"
                      /\ last' = Call("init", 0, 0, 0, <<>>, 0, TRUE)
    /\ e_pos' = 0
    /\ UNCHANGED <<reader, obj_size, e_request_size, e_max_concurrent_requests,
                   e_file_size, blockVars, bufferedVars, cacheVars, extVars>>

EagerUsable == reader = "eager" /\ e_state \in {"open", "closed"}

\* io.BytesIO.read(size): the number of bytes it returns.
BytesIOReadLen(len, pos, n) ==
    LET avail == len - pos
        size == IF n < 0 \/ n > avail THEN avail ELSE n
    IN  Max(size, 0)

\* EagerStoreReader.read
EagerRead(n) ==
    /\ EagerUsable
    /\ LET k == BytesIOReadLen(Len(e_buffer), e_pos, n)
           data == IF k = 0 THEN <<>> ELSE SubSeq(e_buffer, e_pos + 1, e_pos + k)
       IN  /\ e_pos' = e_pos + k
           /\ last' = Call("read", n, 0, e_pos, data, 0, FALSE)
    /\ reqs' = <<>>
    /\ UNCHANGED <<reader, obj_size, e_request_size, e_max_concurrent_requests,
                   e_file_size, e_state, e_buffer, blockVars, bufferedVars,
                   cacheVars, extVars>>

\* EagerStoreReader.readall: the whole buffer, position restored.
EagerReadAll ==
    /\ EagerUsable
    /\ last' = Call("readall", 0, 0, e_pos, e_buffer, 0, FALSE)
    /\ reqs' = <<>>
    /\ UNCHANGED <<reader, obj_size, eagerVars, blockVars, bufferedVars, cacheVars, extVars>>

\* io.BytesIO.seek raises ValueError on a negative offset with whence 0 and
\* on a whence other than 0, 1, 2.
BytesIOSeekRaises(offset, whence) ==
    \/ whence \notin {0, 1, 2}
    \/ whence = 0 /\ offset < 0

\* EagerStoreReader.seek
EagerSeek(offset, whence) ==
    /\ EagerUsable
    /\ IF BytesIOSeekRaises(offset, whence)
       THEN /\ last' = Call("seek", offset, whence, e_pos, <<>>, 0, TRUE)
            /\ UNCHANGED e_pos
       ELSE LET p == ClampPosition(SeekTarget(e_pos, Len(e_buffer), offset, whence))
            IN  /\ p <= MaxPos
                /\ e_pos' = p
                /\ last' = Call("seek", offset, whence, e_pos, <<>>, p, FALSE)
    /\ reqs' = <<>>
    /\ UNCHANGED <<reader, obj_size, e_request_size, e_max_concurrent_requests,
                   e_file_size, e_state, e_buffer, blockVars, bufferedVars,
                   cacheVars, extVars>>

\* EagerStoreReader.close / __exit__: self._buffer = io.BytesIO(b"")
EagerRelease(op, exc) ==
    /\ EagerUsable
    /\ e_buffer' = Emptied(e_buffer)
    /\ e_pos' = 0
    /\ e_state' = "closed"
    /\ last' = Release(op, exc, e_pos, Len(e_buffer))
    /\ reqs' = <<>>
    /\ UNCHANGED <<reader, obj_size, e_request_size, e_max_concurrent_requests,
                   e_file_size, blockVars, bufferedVars, cacheVars, extVars>>

EagerClose == EagerRelease("close", FALSE)
\* __exit__(exc_type, exc_val, exc_tb): self.close()
EagerExit(exc) == EagerRelease("exit", exc)

(***************************************************************************)
(* tell() of the reader under test.                                        *)
(***************************************************************************)
Tell ==
    CASE reader = "block" -> b_position
      [] reader = "buffered" -> f_position
      [] reader = "eager" -> e_pos

(***************************************************************************)
(* The readers' specification: one reader, of any of the three classes,    *)
(* over one object, driven by any sequence of calls.                       *)
(***************************************************************************)
BlockIdle ==
    /\ b_block_size = 1 /\ b_max_cached_blocks = 1
    /\ b_position = 0 /\ b_size = NoSize /\ b_cache = <<>>
    /\ b_seen = NotSeen
BufferedIdle ==
    /\ f_buffer_size = 1
    /\ f_position = 0 /\ f_size = NoSize /\ f_buffer = <<>> /\ f_buffer_start = 0
EagerIdle ==
    /\ e_request_size = 1 /\ e_max_concurrent_requests = 1 /\ e_file_size = NoSize
    /\ e_state = "new" /\ e_buffer = <<>> /\ e_pos = 0

\* BlockStoreReader.__init__
BlockNew ==
    /\ b_block_size \in 1..MaxBlockSize
    /\ b_max_cached_blocks \in 0..MaxCachedBlocks
    /\ b_position = 0 /\ b_size = NoSize /\ b_cache = <<>>
    /\ b_seen = NotSeen

\* BufferedStoreReader.__init__
BufferedNew ==
    /\ f_buffer_size \in 1..MaxBufferSize
    /\ f_position = 0 /\ f_size = NoSize /\ f_buffer = <<>> /\ f_buffer_start = 0

\* The arguments of EagerStoreReader.__init__, before it runs.
EagerNew ==
    /\ e_request_size \in 1..MaxRequestSize
    /\ e_max_concurrent_requests \in 1..MaxConcurrent
    /\ e_file_size \in {NoSize, obj_size}
    /\ e_state = "new" /\ e_buffer = <<>> /\ e_pos = 0

(***************************************************************************)
(* CachingReadableStore (cache.py).  _path_sizes (an OrderedDict) is a     *)
(* sequence of [path, size] entries, least recently used first; _cache     *)
(* (a MemoryStore) is a function from the stored paths to their bytes.     *)
(* Every section of code that holds _lock is one step: nothing else reads  *)
(* or writes the bookkeeping while the lock is held.                       *)
(***************************************************************************)
Paths == 1..NumPaths
Workers == 1..NumWorkers

\* The bytes of the object at path in the wrapped store.
ObjectData(path) == [i \in 1..c_obj_size[path] |-> path]

PathKeys(path_sizes) == {path_sizes[k].path : k \in 1..Len(path_sizes)}
PathOrder(path_sizes) == [k \in 1..Len(path_sizes) |-> path_sizes[k].path]

\* self._path_sizes.move_to_end(path)
PathMoveToEnd(path_sizes, path) ==
    SelectSeq(path_sizes, LAMBDA e : e.path # path)
        \o SelectSeq(path_sizes, LAMBDA e : e.path = path)

\* self._path_sizes[path] = size: a new key goes last, a present key keeps
\* its place.
PathSet(path_sizes, path, size) ==
    IF path \in PathKeys(path_sizes)
    THEN [k \in 1..Len(path_sizes) |->
            IF path_sizes[k].path = path THEN [path |-> path, size |-> size]
            ELSE path_sizes[k]]
    ELSE Append(path_sizes, [path |-> path, size |-> size])

\* MemoryStore.delete / MemoryStore.put
StoreDelete(cache, path) == [q \in (DOMAIN cache) \ {path} |-> cache[q]]
StorePut(cache, path, data) ==
    [q \in (DOMAIN cache) \cup {path} |-> IF q = path THEN data ELSE cache[q]]

\* The bookkeeping of the wrapper as one value.
Book(path_sizes, current_size, cache) ==
    [path_sizes |-> path_sizes, current_size |-> current_size, cache |-> cache]
CurrentBook == Book(c_path_sizes, c_current_size, c_cache)

\* while self._current_size + size > self._max_size and self._path_sizes:
\*     evict the oldest entry
RECURSIVE EvictLRU(_, _, _)
EvictLRU(book, size, max_size) ==
    IF book.current_size + size > max_size /\ book.path_sizes # <<>>
    THEN LET oldest == Head(book.path_sizes)
         IN  EvictLRU(Book(Tail(book.path_sizes),
                           book.current_size - oldest.size,
                           StoreDelete(book.cache, oldest.path)),
                      size, max_size)
    ELSE book

\* _add_to_cache
AddToCache(book, max_size, path, data) ==
    LET size == Len(data)
        room == EvictLRU(book, size, max_size)
    IN  Book(PathSet(room.path_sizes, path, size),
             room.current_size + size,
             StorePut(room.cache, path, data))

\* A cache hit that leaves the order of the entries alone.
TouchCachedNoMove(book, path) == book

\* The cache-hit branch of _ensure_cached / _ensure_cached_async
TouchCached(book, path) ==
    Book(PathMoveToEnd(book.path_sizes, path), book.current_size, book.cache)

\* A second locked section without the second look at _path_sizes.
InsertFetchedNoRecheck(book, max_size, path, data) ==
    AddToCache(book, max_size, path, data)

\* The second locked section of _ensure_cached_async: insert the fetched
\* bytes unless another caller cached the path meanwhile.
InsertFetched(book, max_size, path, data) ==
    IF path \notin PathKeys(book.path_sizes)
    THEN AddToCache(book, max_size, path, data)
    ELSE TouchCached(book, path)

\* The spec's notion of recency, kept beside the code's bookkeeping: the
\* cached paths by the time of their last completed access, oldest first.
Touch(recency, path, keys) ==
    SelectSeq(recency, LAMBDA q : q # path /\ q \in keys) \o <<path>>

\* What a caller holds between the statements of a method: the path, and
\* the number of get requests the call has sent to the wrapped store.
CacheCall(path, nreq) == [path |-> path, nreq |-> nreq]
NoCacheCall == CacheCall(0, 0)
Methods == {"get", "get_range", "get_ranges"}

\* The most recent call that returned: what it returned (data) and those
\* bytes of the object itself (want).
Served(m, path, nreq, result, data, want) ==
    [m |-> m, path |-> path, nreq |-> nreq, result |-> result, data |-> data,
     want |-> want]
NoServed == Served("none", 0, 0, "none", <<>>, <<>>)

\* The cache as an async call found it, recorded only where calls can be
\* abandoned (on = TRUE); w = 0 when no async call is in flight.
Snapshot(on, w, book) == [on |-> on, w |-> w, book |-> book]
Untracked == Snapshot(FALSE, 0, Book(<<>>, 0, <<>>))
NoSnapshot == Snapshot(TRUE, 0, Book(<<>>, 0, <<>>))
TrackPre(w, book) == c_pre' = IF c_pre.on THEN Snapshot(TRUE, w, book) ELSE c_pre

SetBook(book) ==
    /\ c_path_sizes' = book.path_sizes
    /\ c_current_size' = book.current_size
    /\ c_cache' = book.cache

\* A variant of _ensure_cached that fetches whether or not the path is cached.
EnsureCachedAlwaysFetch(book, max_size, path) ==
    [book |-> AddToCache(book, max_size, path, ObjectData(path)), nreq |-> 1]

\* _ensure_cached, under the lock of get / get_range / get_ranges: the new
\* bookkeeping and the number of self._store.get requests sent.
EnsureCached(book, max_size, path) ==
    IF path \in PathKeys(book.path_sizes)
    THEN [book |-> TouchCached(book, path), nreq |-> 0]
    ELSE [book |-> AddToCache(book, max_size, path, ObjectData(path)), nreq |-> 1]

\* get / get_range / get_ranges: with self._lock: self._ensure_cached(path).
\* The three methods run the same locked section.
SyncCall(w, path) ==
    /\ w_pc[w] = "idle"
    /\ \E r \in {EnsureCached(CurrentBook, c_max_size, path)} :
          /\ SetBook(r.book)
          /\ c_recency' = Touch(c_recency, path, PathKeys(r.book.path_sizes))
          /\ w_call' = [w_call EXCEPT ![w] = CacheCall(path, r.nreq)]
    /\ w_pc' = [w_pc EXCEPT ![w] = "serving"]
    /\ TrackPre(0, Book(<<>>, 0, <<>>))
    /\ UNCHANGED <<c_obj_size, c_max_size, c_last, c_scope, readerVars, extVars>>

\* get_async / get_range_async / get_ranges_async, up to the await of the
\* fetch: the first locked section of _ensure_cached_async, after which a
\* miss sends self._store.get_async(path).
AsyncCall(w, path) ==
    /\ w_pc[w] = "idle"
    /\ IF path \in PathKeys(c_path_sizes)
       THEN /\ SetBook(TouchCached(CurrentBook, path))
            /\ c_recency' = Touch(c_recency, path, PathKeys(c_path_sizes))
            /\ w_call' = [w_call EXCEPT ![w] = CacheCall(path, 0)]
            /\ w_pc' = [w_pc EXCEPT ![w] = "serving"]
       ELSE /\ w_call' = [w_call EXCEPT ![w] = CacheCall(path, 1)]
            /\ w_pc' = [w_pc EXCEPT ![w] = "fetching"]
            /\ UNCHANGED <<c_path_sizes, c_current_size, c_cache, c_recency>>
    /\ TrackPre(w, CurrentBook)
    /\ UNCHANGED <<c_obj_size, c_max_size, c_last, c_scope, readerVars, extVars>>

\* The fetch of an async call completes: the second locked section.
AsyncFetched(w) ==
    /\ w_pc[w] = "fetching"
    /\ \E book \in {InsertFetched(CurrentBook, c_max_size, w_call[w].path,
                                  ObjectData(w_call[w].path))} :
          /\ SetBook(book)
          /\ c_recency' = Touch(c_recency, w_call[w].path, PathKeys(book.path_sizes))
    /\ w_pc' = [w_pc EXCEPT ![w] = "serving"]
    /\ UNCHANGED <<c_obj_size, c_max_size, w_call, c_last, c_pre, c_scope, readerVars, extVars>>

\* What method m returns from the bytes of the whole object: all of them
\* for get, data[0:1] for get_range(start=0, length=1), and the buffers
\* data[0:1], data[1:2] for get_ranges(starts=[0, 1], lengths=[1, 1]).
ServeFrom(data, m) ==
    CASE m = "get" -> data
      [] m = "get_range" -> PySlice(data, 0, 1)
      [] m = "get_ranges" -> <<PySlice(data, 0, 1), PySlice(data, 1, 2)>>

\* return self._cache.<m>(path, ...): outside the lock, from whatever
\* MemoryStore self._cache names now; a path it does not hold raises.
Serve(w, m) ==
    /\ w_pc[w] \in {"serving"}
    /\ LET path == w_call[w].path
           want == ServeFrom(ObjectData(path), m)
       IN  IF path \in DOMAIN c_cache
           THEN c_last' = Served(m, path, w_call[w].nreq, "bytes",
                                 ServeFrom(c_cache[path], m), want)
           ELSE c_last' = Served(m, path, w_call[w].nreq, "not_found", <<>>, want)
    /\ w_pc' = [w_pc EXCEPT ![w] = "idle"]
    /\ w_call' = [w_call EXCEPT ![w] = NoCacheCall]
    /\ UNCHANGED <<c_obj_size, c_max_size, c_current_size, c_path_sizes, c_cache,
                   c_recency, c_pre, c_scope, readerVars, extVars>>

\* A clear_cache that keeps what is cached.
NotCleared(book) == book

\* clear_cache: a fresh MemoryStore, no entries, size 0.
ClearedBook(book) == Book(<<>>, 0, <<>>)

\* clear_cache
ClearCache ==
    /\ SetBook(ClearedBook(CurrentBook))
    /\ c_recency' = PathOrder(ClearedBook(CurrentBook).path_sizes)
    /\ UNCHANGED <<c_obj_size, c_max_size, w_pc, w_call, c_last, c_pre, c_scope, readerVars, extVars>>

\* The with-block: where control is (out, in, exited), whether the body
\* raised, and whether the with statement re-raised it after __exit__.
Scope(at, raised, propagated) ==
    [at |-> at, raised |-> raised, propagated |-> propagated]
NoScope == Scope("out", FALSE, FALSE)

\* __enter__: return self
ScopeEnter ==
    /\ c_scope.at = "out"
    /\ c_scope' = Scope("in", FALSE, FALSE)
    /\ UNCHANGED <<c_obj_size, c_max_size, c_current_size, c_path_sizes, c_cache,
                   c_recency, w_pc, w_call, c_last, c_pre, readerVars, extVars>>

\* What __exit__ returns: None, so the with statement re-raises.
ExitSuppresses == FALSE

\* __exit__(exc_type, exc_val, exc_tb): self.clear_cache(); the body ended
\* normally (raised = FALSE) or by raising.
ScopeExit(raised) ==
    /\ c_scope.at = "in"
    /\ SetBook(ClearedBook(CurrentBook))
    /\ c_recency' = PathOrder(ClearedBook(CurrentBook).path_sizes)
    /\ c_scope' = Scope("exited", raised, raised /\ ~ExitSuppresses)
    /\ UNCHANGED <<c_obj_size, c_max_size, w_pc, w_call, c_last, c_pre, readerVars, extVars>>

\* cache_size / cached_paths
cache_size == c_current_size
cached_paths == PathOrder(c_path_sizes)

\* CachingReadableStore.__init__
CacheNew ==
    /\ c_current_size = 0 /\ c_path_sizes = <<>> /\ c_cache = <<>>
    /\ c_recency = <<>>
    /\ w_pc = [w \in Workers |-> "idle"]
    /\ w_call = [w \in Workers |-> NoCacheCall]
    /\ c_last = NoServed
    /\ c_pre = Untracked
    /\ c_scope = NoScope

\* An async call is abandoned at one of its awaits: the task is cancelled
\* (the CancelledError is raised at the await of the fetch, or at the await
\* of self._cache.<method>_async after _ensure_cached_async returned), or
\* the fetch itself raises.  Nothing after the await runs.
AsyncAbort(w, why) ==
    /\ c_pre.on /\ c_pre.w = w
    /\ \/ w_pc[w] = "fetching"
       \/ w_pc[w] = "serving" /\ why = "cancelled"
    /\ w_pc' = [w_pc EXCEPT ![w] = "idle"]
    /\ w_call' = [w_call EXCEPT ![w] = NoCacheCall]
    /\ c_last' = Served("none", w_call[w].path, w_call[w].nreq, why, <<>>, <<>>)
    /\ UNCHANGED <<c_obj_size, c_max_size, c_current_size, c_path_sizes, c_cache,
                   c_recency, c_pre, c_scope, readerVars, extVars>>

(***************************************************************************)
(* SplittingReadableStore (splitting.py) over the store holding            *)
(* object_bytes.                                                           *)
(***************************************************************************)
\* Mutant: the number of parts is not capped at max_concurrent_requests.
UncappedRanges(file_size, request_size, max_concurrent_requests) ==
    LET n0 == CeilDiv(file_size, request_size)
        starts == [k \in 1..n0 |-> (k - 1) * request_size]
        lengths == [k \in 1..n0 |-> Min(request_size, file_size - starts[k])]
    IN  IF file_size = 0 \/ n0 = 1
        THEN [split |-> FALSE, starts |-> <<>>, lengths |-> <<>>]
        ELSE [split |-> TRUE, starts |-> starts, lengths |-> lengths]

\* _compute_ranges: split = FALSE is the None it returns when one request
\* suffices.
ComputeRanges(file_size, request_size, max_concurrent_requests) ==
    LET n0 == CeilDiv(file_size, request_size)
        capped == n0 > max_concurrent_requests
        num_requests == IF capped THEN max_concurrent_requests ELSE n0
        size == IF capped THEN CeilDiv(file_size, num_requests) ELSE request_size
        starts == [k \in 1..num_requests |-> (k - 1) * size]
        lengths == [k \in 1..num_requests |-> Min(size, file_size - starts[k])]
    IN  IF file_size = 0 \/ n0 = 1
        THEN [split |-> FALSE, starts |-> <<>>, lengths |-> <<>>]
        ELSE [split |-> TRUE, starts |-> starts, lengths |-> lengths]

\* What a get on the wrapper did: whether it split, the parts it asked
\* for, and the bytes of the result it returned (or that it raised).
SplitCall(op, split, starts, lengths, data, raised) ==
    [op |-> op, split |-> split, starts |-> starts, lengths |-> lengths,
     data |-> data, raised |-> raised]
NoSplitCall == SplitCall("none", FALSE, <<>>, <<>>, <<>>, FALSE)

\* get / get_async.  A get_ranges holding a part the store cannot serve
\* either raises (obstore) or yields b"" for that part (tests/mocks.py).
SplitGet(op) ==
    /\ reader = "split"
    /\ LET file_size == StoreHead
           ranges == ComputeRanges(file_size, s_request_size,
                                   s_max_concurrent_requests)
       IN  IF ranges.split
           THEN /\ reqs' = <<ReqHead, ReqGetRanges(ranges.starts, ranges.lengths)>>
                /\ \/ s_last' = SplitCall(op, TRUE, ranges.starts, ranges.lengths,
                          Concat(StoreGetRanges(ranges.starts, ranges.lengths)), FALSE)
                   \/ /\ StoreRejects(ranges.starts, ranges.lengths)
                      /\ s_last' = SplitCall(op, TRUE, ranges.starts, ranges.lengths,
                                             <<>>, TRUE)
           ELSE /\ reqs' = <<ReqHead, ReqGet>>
                /\ s_last' = SplitCall(op, FALSE, <<>>, <<>>, StoreGet, FALSE)
    /\ UNCHANGED <<reader, obj_size, blockVars, bufferedVars, eagerVars, last,
                   s_request_size, s_max_concurrent_requests, traceVars,
                   registryVars, moreVars, cacheVars>>

SplitIdle ==
    /\ s_request_size = 1 /\ s_max_concurrent_requests = 1 /\ s_last = NoSplitCall

(***************************************************************************)
(* TracingReadableStore (wrappers/_tracing.py) over a store whose calls    *)
(* may raise.                                                              *)
(***************************************************************************)
\* RequestRecord without its clock fields; "" stands for range_style None.
RequestRecord(method, start, length, range_style) ==
    [method |-> method, start |-> start, length |-> length,
     end |-> start + length, range_style |-> range_style]

\* What a call on the wrapper was: the records it owes the trace (parts),
\* the length of the trace when it began, and whether the delegate raised.
TraceCall(op, parts, before, raised) ==
    [op |-> op, parts |-> parts, before |-> before, raised |-> raised]
NoTraceCall == TraceCall("none", 0, 0, FALSE)

\* _record: the finally clause adds the record whether or not the body
\* raised; info holds what the body stored before the delegate was called.
Record(trace, record, raised) == Append(trace, record)

\* _record_ranges: one record per part.
RecordRanges(trace, starts, lengths, range_style) ==
    trace \o [k \in 1..Len(starts) |->
                 RequestRecord("get_ranges", starts[k], lengths[k], range_style)]

\* get / get_async: start and length are stored after the delegate
\* returned, so a failed call is recorded with the defaults 0, 0.
TraceGet(op, raised) ==
    /\ reader = "trace" /\ Len(t_trace) < MaxTrace
    /\ t_trace' = Record(t_trace,
                         RequestRecord("get", 0, IF raised THEN 0 ELSE StoreHead, ""),
                         raised)
    /\ t_last' = TraceCall(op, 1, Len(t_trace), raised)
    /\ UNCHANGED <<readerVars, splitVars, registryVars, moreVars, cacheVars>>

\* get_range / get_range_async with length= or end=: info is filled before
\* the delegate is called.
TraceGetRange(op, start, length, range_style, raised) ==
    /\ reader = "trace" /\ Len(t_trace) < MaxTrace
    /\ t_trace' = Record(t_trace,
                         RequestRecord("get_range", start, length, range_style),
                         raised)
    /\ t_last' = TraceCall(op, 1, Len(t_trace), raised)
    /\ UNCHANGED <<readerVars, splitVars, registryVars, moreVars, cacheVars>>

\* get_ranges / get_ranges_async: _record_ranges is called after the
\* delegate returned, outside any try block.
TraceGetRanges(op, starts, lengths, range_style, raised) ==
    /\ reader = "trace" /\ Len(t_trace) + Len(starts) <= MaxTrace
    /\ t_trace' = IF raised THEN t_trace
                  ELSE RecordRanges(t_trace, starts, lengths, range_style)
    /\ t_last' = TraceCall(op, Len(starts), Len(t_trace), raised)
    /\ UNCHANGED <<readerVars, splitVars, registryVars, moreVars, cacheVars>>

\* head / head_async.
TraceHead(op, raised) ==
    /\ reader = "trace" /\ Len(t_trace) < MaxTrace
    /\ t_trace' = Record(t_trace, RequestRecord("head", 0, 0, ""), raised)
    /\ t_last' = TraceCall(op, 1, Len(t_trace), raised)
    /\ UNCHANGED <<readerVars, splitVars, registryVars, moreVars, cacheVars>>

\* RequestTrace.clear.
TraceClear ==
    /\ reader = "trace" /\ t_trace # <<>>
    /\ t_trace' = <<>>
    /\ t_last' = TraceCall("clear", 0, 0, FALSE)
    /\ UNCHANGED <<readerVars, splitVars, registryVars, moreVars, cacheVars>>

TraceIdle == t_trace = <<>> /\ t_last = NoTraceCall

(***************************************************************************)
(* TracingReadableStore called from several threads that share one trace   *)
(* and one on_request callback.  A thread can be preempted between any two *)
(* statements; the clock moves while a delegate runs.                      *)
(***************************************************************************)
Threads == 1..NumThreads

\* A traced call in progress: its method and number of parts, time.time()
\* at its entry, the timestamp its records get, the parts recorded so far
\* and the index in trace.requests of the record it appended last.
TracedCall(method, parts, start_time, timestamp, done, own) ==
    [method |-> method, parts |-> parts, start_time |-> start_time,
     timestamp |-> timestamp, done |-> done, own |-> own]
NoTracedCall == TracedCall("none", 0, 0, 0, 0, 0)

\* A record of the trace; entered is history: time.time() at the entry of
\* the call, and id tells records of equal fields apart.
TimedRecord(method, timestamp, entered, id) ==
    [method |-> method, timestamp |-> timestamp, entered |-> entered, id |-> id]

\* The records the calls in progress have still to append.
Pending(call) ==
    LET F[t \in 0..NumThreads] ==
            IF t = 0 THEN 0 ELSE F[t - 1] + call[t].parts - call[t].done
    IN  F[NumThreads]

\* Entry of get / get_range / head (parts = 1) or get_ranges: start_time =
\* time.time(), before the delegate is called.
TracedEnter(t, method, parts) ==
    /\ reader = "threads" /\ n_pc[t] = "idle"
    /\ Len(n_requests) + Pending(n_call) + parts <= MaxRequests
    /\ n_call' = [n_call EXCEPT ![t] = TracedCall(method, parts, n_clock, 0, 0, 0)]
    /\ n_pc' = [n_pc EXCEPT ![t] = "delegate"]
    /\ UNCHANGED <<n_clock, n_requests, n_callbacks>>
    /\ UNCHANGED <<readerVars, cacheVars, splitVars, traceVars, registryVars,
                   parallelVars, memVars, prefetchVars>>

\* Time passes while a delegate runs.
Tick ==
    /\ reader = "threads" /\ n_clock < MaxClock
    /\ \E t \in Threads : n_pc[t] = "delegate"
    /\ n_clock' = n_clock + 1
    /\ UNCHANGED <<n_pc, n_call, n_requests, n_callbacks>>
    /\ UNCHANGED <<readerVars, cacheVars, splitVars, traceVars, registryVars,
                   parallelVars, memVars, prefetchVars>>

\* The delegate returns.  _record keeps timestamp = start_time; get_ranges
\* goes on to _record_ranges, which takes timestamp = time.time() itself.
TracedReturn(t) ==
    /\ reader = "threads" /\ n_pc[t] = "delegate"
    /\ n_call' = [n_call EXCEPT ![t].timestamp =
                     IF n_call[t].method = "get_ranges" THEN n_clock
                     ELSE n_call[t].start_time]
    /\ n_pc' = [n_pc EXCEPT ![t] = "add"]
    /\ UNCHANGED <<n_clock, n_requests, n_callbacks>>
    /\ UNCHANGED <<readerVars, cacheVars, splitVars, traceVars, registryVars,
                   parallelVars, memVars, prefetchVars>>

\* self._trace.add(...): one record appended to trace.requests.
TracedAdd(t) ==
    /\ reader = "threads" /\ n_pc[t] = "add"
    /\ n_requests' = Append(n_requests,
                            TimedRecord(n_call[t].method, n_call[t].timestamp,
                                        n_call[t].start_time, Len(n_requests) + 1))
    /\ n_call' = [n_call EXCEPT ![t].own = Len(n_requests) + 1]
    /\ n_pc' = [n_pc EXCEPT ![t] = "on_request"]
    /\ UNCHANGED <<n_clock, n_callbacks>>
    /\ UNCHANGED <<readerVars, cacheVars, splitVars, traceVars, registryVars,
                   parallelVars, memVars, prefetchVars>>

\* self._on_request(self._trace.requests[-1]): the callback gets the last
\* record of the trace as it is now; appended is the record this thread
\* added.  A get_ranges then goes on to its next part.
TracedCallback(t) ==
    /\ reader = "threads" /\ n_pc[t] = "on_request"
    /\ n_callbacks' = Append(n_callbacks,
                             [arg |-> n_requests[Len(n_requests)],
                              appended |-> n_requests[n_call[t].own]])
    /\ IF n_call[t].done + 1 < n_call[t].parts
       THEN /\ n_call' = [n_call EXCEPT ![t].done = @ + 1]
            /\ n_pc' = [n_pc EXCEPT ![t] = "add"]
       ELSE /\ n_call' = [n_call EXCEPT ![t] = NoTracedCall]
            /\ n_pc' = [n_pc EXCEPT ![t] = "idle"]
    /\ UNCHANGED <<n_clock, n_requests>>
    /\ UNCHANGED <<readerVars, cacheVars, splitVars, traceVars, registryVars,
                   parallelVars, memVars, prefetchVars>>

ThreadsIdle ==
    /\ n_pc = [t \in Threads |-> "idle"]
    /\ n_call = [t \in Threads |-> NoTracedCall]
    /\ n_clock = 0 /\ n_requests = <<>> /\ n_callbacks = <<>>

(***************************************************************************)
(* MemoryCache, SyncBlockCache and AsyncBlockCache (kyle/_block_cache.py)  *)
(* over one path.  The LRUCache _blocks is a sequence of [idx, data]       *)
(* entries, least recently used first.                                     *)
(***************************************************************************)
Tasks == {1, 2}

\* The outcome of cache.get: bytes, or the missing ranges to fetch; blocks
\* is the LRUCache after the lookups.
Lookup(kind, data, ranges, blocks) ==
    [kind |-> kind, data |-> data, ranges |-> ranges, blocks |-> blocks]

\* The outcome of a get_range call on a wrapper.
RangeCall(start, end, outcome, data) ==
    [start |-> start, end |-> end, outcome |-> outcome, data |-> data]
NoRangeCall == RangeCall(0, 0, "none", <<>>)
NoAwait == [start |-> 0, end |-> 0, ranges |-> <<>>]

\* LRUCache.__setitem__ on a full cache: the least recently used entries
\* go until the new one fits.
LruSet(blocks, max_blocks, idx, data) ==
    IF CacheHas(blocks, idx)
    THEN SelectSeq(blocks, LAMBDA e : e.idx # idx) \o <<[idx |-> idx, data |-> data]>>
    ELSE EvictBlocks(blocks, max_blocks - 1) \o <<[idx |-> idx, data |-> data]>>

\* First pass of MemoryCache.get: the blocks to fetch.  self._blocks[key]
\* on a cached block makes it the most recently used.
RECURSIVE MissingBlocks(_, _, _, _, _, _)
MissingBlocks(blocks, block_size, block_idx, end_block, hit_eof, missing) ==
    IF block_idx > end_block THEN [blocks |-> blocks, missing |-> missing]
    ELSE IF ~CacheHas(blocks, block_idx)
    THEN MissingBlocks(blocks, block_size, block_idx + 1, end_block, hit_eof,
                       IF hit_eof THEN missing ELSE Append(missing, block_idx))
    ELSE MissingBlocks(MoveToEnd(blocks, block_idx), block_size, block_idx + 1,
                       end_block,
                       hit_eof \/ Len(CacheGet(blocks, block_idx)) < block_size,
                       missing)

\* _coalesce_missing_blocks: runs of adjacent blocks as (start, end) ranges.
RECURSIVE CoalesceMissingBlocks(_, _, _, _)
CoalesceMissingBlocks(rest, range_start, range_end, block_size) ==
    IF rest = <<>>
    THEN <<[start |-> range_start * block_size, end |-> (range_end + 1) * block_size]>>
    ELSE IF Head(rest) - range_end = 1
    THEN CoalesceMissingBlocks(Tail(rest), range_start, Head(rest), block_size)
    ELSE <<[start |-> range_start * block_size, end |-> (range_end + 1) * block_size]>>
         \o CoalesceMissingBlocks(Tail(rest), Head(rest), Head(rest), block_size)

\* Second pass of MemoryCache.get: the cached blocks' parts, up to and
\* including the first block shorter than block_size.
RECURSIVE Assemble(_, _, _, _, _, _)
Assemble(blocks, block_size, start, end, block_idx, end_block) ==
    IF block_idx > end_block THEN [blocks |-> blocks, data |-> <<>>]
    ELSE LET block_data == CacheGet(blocks, block_idx)
             block_start == block_idx * block_size
             slice_start == Max(0, start - block_start)
             slice_end == Min(Len(block_data), end - block_start)
             chunk == PySlice(block_data, slice_start, slice_end)
             touched == MoveToEnd(blocks, block_idx)
         IN  IF Len(block_data) < block_size
             THEN [blocks |-> touched, data |-> chunk]
             ELSE LET more == Assemble(touched, block_size, start, end,
                                       block_idx + 1, end_block)
                  IN  [blocks |-> more.blocks, data |-> chunk \o more.data]

\* MemoryCache.get(path, start, end)
MemoryCacheGet(blocks, block_size, start, end) ==
    LET start_block == start \div block_size
        end_block == (end - 1) \div block_size
        first == MissingBlocks(blocks, block_size, start_block, end_block, FALSE, <<>>)
    IN  IF first.missing # <<>>
        THEN Lookup("missing", <<>>,
                    CoalesceMissingBlocks(Tail(first.missing), Head(first.missing),
                                          Head(first.missing), block_size),
                    first.blocks)
        ELSE LET second == Assemble(first.blocks, block_size, start, end,
                                    start_block, end_block)
             IN  Lookup("bytes", second.data, <<>>, second.blocks)

\* MemoryCache.store(path, fetch_start, data): block_idx is
\* fetch_start // block_size, data what is left to store.
RECURSIVE MemoryCacheStore(_, _, _, _, _)
MemoryCacheStore(blocks, max_blocks, block_size, block_idx, data) ==
    IF data = <<>> THEN blocks
    ELSE MemoryCacheStore(LruSet(blocks, max_blocks, block_idx,
                                 PySlice(data, 0, block_size)),
                          max_blocks, block_size, block_idx + 1,
                          PySlice(data, block_size, Len(data)))

\* A range the backend is asked for although it starts at or past the end
\* of the object.
PastEnd(ranges) == \E k \in 1..Len(ranges) : ranges[k].start >= obj_size

\* _fetch_missing: every range fetched from the backend, then stored in turn.
RECURSIVE FetchMissing(_, _, _, _)
FetchMissing(blocks, max_blocks, block_size, ranges) ==
    IF ranges = <<>> THEN blocks
    ELSE FetchMissing(MemoryCacheStore(blocks, max_blocks, block_size,
                                       Head(ranges).start \div block_size,
                                       PySlice(object_bytes, Head(ranges).start,
                                               Head(ranges).end)),
                      max_blocks, block_size, Tail(ranges))

\* The rest of get_range once the missing ranges are known: fetch, store,
\* look up again, assert isinstance(result, bytes).  A backend may raise on
\* a range past the end of the object or return no bytes for it.
AfterFetch(blocks, start, end, ranges, backend_raises) ==
    IF backend_raises /\ PastEnd(ranges)
    THEN /\ k_blocks' = blocks
         /\ k_last' = RangeCall(start, end, "backend_error", <<>>)
    ELSE \E again \in {MemoryCacheGet(FetchMissing(blocks, k_max_blocks,
                                                   k_block_size, ranges),
                                      k_block_size, start, end)} :
            /\ k_blocks' = again.blocks
            /\ k_last' = IF again.kind = "bytes"
                         THEN RangeCall(start, end, "bytes", again.data)
                         ELSE RangeCall(start, end, "assertion_error", <<>>)

\* SyncBlockCache.get_range(path, start=start, end=end)
SyncGetRange(start, end, backend_raises) ==
    /\ reader = "memcache"
    /\ \E result \in {MemoryCacheGet(k_blocks, k_block_size, start, end)} :
          IF result.kind = "bytes"
          THEN /\ k_blocks' = result.blocks
               /\ k_last' = RangeCall(start, end, "cached", result.data)
          ELSE AfterFetch(result.blocks, start, end, result.ranges, backend_raises)
    /\ UNCHANGED <<k_block_size, k_max_blocks, k_pc, k_call>>
    /\ UNCHANGED <<readerVars, cacheVars, splitVars, traceVars, registryVars,
                   parallelVars, threadVars, prefetchVars>>

\* AsyncBlockCache.get_range_async up to its await: the first lookup.
AsyncGetRange(t, start, end) ==
    /\ reader = "memcache" /\ k_pc[t] = "idle"
    /\ \E result \in {MemoryCacheGet(k_blocks, k_block_size, start, end)} :
          /\ k_blocks' = result.blocks
          /\ IF result.kind = "bytes"
             THEN /\ k_last' = RangeCall(start, end, "cached", result.data)
                  /\ UNCHANGED <<k_pc, k_call>>
             ELSE /\ k_pc' = [k_pc EXCEPT ![t] = "fetching"]
                  /\ k_call' = [k_call EXCEPT ![t] =
                                    [start |-> start, end |-> end,
                                     ranges |-> result.ranges]]
                  /\ UNCHANGED k_last
    /\ UNCHANGED <<k_block_size, k_max_blocks>>
    /\ UNCHANGED <<readerVars, cacheVars, splitVars, traceVars, registryVars,
                   parallelVars, threadVars, prefetchVars>>

\* The backend's awaitable completes and the task runs on to its return.
AsyncGetRangeResume(t, backend_raises) ==
    /\ reader = "memcache" /\ k_pc[t] = "fetching"
    /\ AfterFetch(k_blocks, k_call[t].start, k_call[t].end, k_call[t].ranges,
                  backend_raises)
    /\ k_pc' = [k_pc EXCEPT ![t] = "idle"]
    /\ k_call' = [k_call EXCEPT ![t] = NoAwait]
    /\ UNCHANGED <<k_block_size, k_max_blocks>>
    /\ UNCHANGED <<readerVars, cacheVars, splitVars, traceVars, registryVars,
                   parallelVars, threadVars, prefetchVars>>

MemIdle ==
    /\ k_block_size = 1 /\ k_max_blocks = 1 /\ k_blocks = <<>>
    /\ k_pc = [t \in Tasks |-> "idle"]
    /\ k_call = [t \in Tasks |-> NoAwait]
    /\ k_last = NoRangeCall

(***************************************************************************)
(* ObstorePrefetchReader (file_handlers.py).  The OrderedDict _cache is a  *)
(* sequence of [idx, data] entries, oldest first; the executor has a       *)
(* worker for every task submitted.                                        *)
(***************************************************************************)
Chunks == 0..(MaxFileSize - 1)

\* _chunk_range(chunk_idx) and the bytes obs.get_range returns for it.
ChunkData(chunk_idx) ==
    PySlice(object_bytes, chunk_idx * h_chunk_size,
            Min(chunk_idx * h_chunk_size + h_chunk_size, obj_size))

\* self._cache[chunk_idx] = data, then the eviction loop.
CacheChunk(cache, chunk_idx) ==
    EvictBlocks(SelectSeq(cache, LAMBDA e : e.idx # chunk_idx)
                    \o <<[idx |-> chunk_idx, data |-> ChunkData(chunk_idx)]>>,
                h_max_cached_chunks)

\* _trigger_prefetch: the chunks from the current one to the one holding
\* min(pos + prefetch_size, size - 1) that are neither cached nor pending.
TriggerPrefetch(cache, pending, pos) ==
    {c \in Chunks : /\ c >= pos \div h_chunk_size
                    /\ c <= Min(pos + h_prefetch_size, obj_size - 1) \div h_chunk_size
                    /\ ~CacheHas(cache, c)
                    /\ c \notin pending}

\* The loop of read: _get_chunk for every chunk from chunk_idx to end_chunk,
\* a cached chunk moved to the end, any other fetched and inserted.
RECURSIVE GetChunks(_, _, _)
GetChunks(cache, chunk_idx, end_chunk) ==
    IF chunk_idx > end_chunk THEN cache
    ELSE GetChunks(IF CacheHas(cache, chunk_idx) THEN MoveToEnd(cache, chunk_idx)
                   ELSE CacheChunk(cache, chunk_idx),
                   chunk_idx + 1, end_chunk)

\* read(size) on the open reader.
PrefetchRead(n) ==
    /\ reader = "prefetch" /\ h_closed = "open"
    /\ LET size == IF n = 0 - 1 THEN obj_size - h_pos ELSE n
           clamped == Min(size, obj_size - h_pos)
           submitted == TriggerPrefetch(h_cache, h_pending, h_pos)
       IN  IF size <= 0 \/ h_pos >= obj_size
           THEN UNCHANGED <<h_pos, h_cache, h_pending, h_task>>
           ELSE /\ h_pending' = h_pending \cup submitted
                /\ h_task' = [c \in Chunks |->
                                 IF c \in submitted THEN "queued" ELSE h_task[c]]
                /\ h_cache' = GetChunks(h_cache, h_pos \div h_chunk_size,
                                        (h_pos + clamped - 1) \div h_chunk_size)
                /\ h_pos' = h_pos + clamped
    /\ UNCHANGED <<h_chunk_size, h_prefetch_size, h_max_cached_chunks, h_closed>>
    /\ UNCHANGED <<readerVars, cacheVars, splitVars, traceVars, registryVars,
                   parallelVars, threadVars, memVars>>

\* seek(offset, whence) on the open reader.
PrefetchSeek(offset, whence) ==
    /\ reader = "prefetch" /\ h_closed = "open"
    /\ whence \in 0..2
    /\ LET new_pos == CASE whence = 0 -> offset
                        [] whence = 1 -> h_pos + offset
                        [] whence = 2 -> obj_size + offset
       IN  h_pos' = Max(0, Min(new_pos, obj_size))
    /\ UNCHANGED <<h_chunk_size, h_prefetch_size, h_max_cached_chunks, h_cache,
                   h_pending, h_closed, h_task>>
    /\ UNCHANGED <<readerVars, cacheVars, splitVars, traceVars, registryVars,
                   parallelVars, threadVars, memVars>>

\* _prefetch_chunk_background starts on a worker: if self._closed: return.
PrefetchTaskStart(c) ==
    /\ reader = "prefetch" /\ h_task[c] = "queued"
    /\ h_task' = [h_task EXCEPT ![c] = IF h_closed = "open" THEN "try" ELSE "none"]
    /\ UNCHANGED <<h_chunk_size, h_prefetch_size, h_max_cached_chunks, h_pos,
                   h_cache, h_pending, h_closed>>
    /\ UNCHANGED <<readerVars, cacheVars, splitVars, traceVars, registryVars,
                   parallelVars, threadVars, memVars>>

\* _fetch_chunk: None on a closed reader or past the end, else the store
\* is asked for the chunk.
PrefetchTaskFetch(c) ==
    /\ reader = "prefetch" /\ h_task[c] = "try"
    /\ h_task' = [h_task EXCEPT ![c] =
                     IF h_closed # "open" \/ c * h_chunk_size >= obj_size
                     THEN "finally" ELSE "fetching"]
    /\ UNCHANGED <<h_chunk_size, h_prefetch_size, h_max_cached_chunks, h_pos,
                   h_cache, h_pending, h_closed>>
    /\ UNCHANGED <<readerVars, cacheVars, splitVars, traceVars, registryVars,
                   parallelVars, threadVars, memVars>>

\* obs.get_range has returned: under the cache lock the chunk is inserted
\* unless it is there already.
PrefetchTaskStore(c) ==
    /\ reader = "prefetch" /\ h_task[c] = "fetching"
    /\ h_cache' = IF CacheHas(h_cache, c) THEN h_cache ELSE CacheChunk(h_cache, c)
    /\ h_task' = [h_task EXCEPT ![c] = "finally"]
    /\ UNCHANGED <<h_chunk_size, h_prefetch_size, h_max_cached_chunks, h_pos,
                   h_pending, h_closed>>
    /\ UNCHANGED <<readerVars, cacheVars, splitVars, traceVars, registryVars,
                   parallelVars, threadVars, memVars>>

\* finally: self._pending_chunks.discard(chunk_idx)
PrefetchTaskFinally(c) ==
    /\ reader = "prefetch" /\ h_task[c] = "finally"
    /\ h_pending' = h_pending \ {c}
    /\ h_task' = [h_task EXCEPT ![c] = "none"]
    /\ UNCHANGED <<h_chunk_size, h_prefetch_size, h_max_cached_chunks, h_pos,
                   h_cache, h_closed>>
    /\ UNCHANGED <<readerVars, cacheVars, splitVars, traceVars, registryVars,
                   parallelVars, threadVars, memVars>>

\* close(): self._closed = True; self._executor.shutdown(wait=False)
PrefetchClose ==
    /\ reader = "prefetch" /\ h_closed \in {"open", "closed"}
    /\ h_closed' = "closing"
    /\ UNCHANGED <<h_chunk_size, h_prefetch_size, h_max_cached_chunks, h_pos,
                   h_cache, h_pending, h_task>>
    /\ UNCHANGED <<readerVars, cacheVars, splitVars, traceVars, registryVars,
                   parallelVars, threadVars, memVars>>

\* close(): with self._cache_lock: self._cache.clear(); close returns.
PrefetchCloseClear ==
    /\ reader = "prefetch" /\ h_closed = "closing"
    /\ h_cache' = <<>>
    /\ h_closed' = "closed"
    /\ UNCHANGED <<h_chunk_size, h_prefetch_size, h_max_cached_chunks, h_pos,
                   h_pending, h_task>>
    /\ UNCHANGED <<readerVars, cacheVars, splitVars, traceVars, registryVars,
                   parallelVars, threadVars, memVars>>

PrefetchIdle ==
    /\ h_chunk_size = 1 /\ h_prefetch_size = 0 /\ h_max_cached_chunks = 1
    /\ h_pos = 0 /\ h_cache = <<>> /\ h_pending = {} /\ h_closed = "open"
    /\ h_task = [c \in Chunks |-> "none"]

(***************************************************************************)
(* ObjectStoreRegistry (registry.py).  A path is a sequence of characters; *)
(* a node of a PathEntry tree is named by the segments that lead to it.    *)
(***************************************************************************)
PathChars == {"/", "a"}
Keys == {1, 2}
\* Stores 1 and 2 have __aenter__ / __aexit__ (AiohttpStore); store 3 has
\* neither (obstore's stores).
AsyncStores == {1, 2}
PlainStores == {3}
StoreIds == AsyncStores \cup PlainStores
\* Store 4 has a prefix attribute "a" (an S3Store with prefix="a"), store 5
\* a url attribute whose path is "/a"; the other stores have neither.
PrefixStores == {4}
UrlStores == {5}
NoStore == 0

RECURSIVE CharSeqs(_)
CharSeqs(n) ==
    IF n = 0 THEN {<<>>}
    ELSE LET shorter == CharSeqs(n - 1)
         IN  shorter \cup {Append(p, c) : p \in {q \in shorter : Len(q) = n - 1},
                                          c \in PathChars}
\* urlparse(url).path of a URL with an authority: empty or starting with "/".
UrlPaths == {p \in CharSeqs(MaxPathLen) : p = <<>> \/ p[1] = "/"}

\* path.split("/")
RECURSIVE Split(_, _, _)
Split(path, current, done) ==
    IF path = <<>> THEN Append(done, current)
    ELSE IF Head(path) = "/"
         THEN Split(Tail(path), <<>>, Append(done, current))
         ELSE Split(Tail(path), Append(current, Head(path)), done)

path_segments(path) == SelectSeq(Split(path, <<>>, <<>>), LAMBDA x : x # <<>>)

\* path.lstrip("/")
RECURSIVE LStrip(_)
LStrip(path) ==
    IF path # <<>> /\ Head(path) = "/" THEN LStrip(Tail(path)) ELSE path

IsPrefix(p, q) == Len(p) <= Len(q) /\ SubSeq(q, 1, Len(p)) = p

\* PathEntry(): no store, no children.
PathEntry == (<<>> :> NoStore)

\* `segment in current.children`: the child of node reached by segment.
ChildrenByCharPrefix(tree, node, segment) ==
    {c \in DOMAIN tree : /\ Len(c) = Len(node) + 1
                         /\ SubSeq(c, 1, Len(node)) = node
                         /\ IsPrefix(c[Len(c)], segment)}
Children(tree, node, segment) == {Append(node, segment)} \cap DOMAIN tree

\* The (store, depth) lookup returns; store = NoStore stands for None.
Found(store, depth) == [store |-> store, depth |-> depth]

\* if current.store is not None: ret = (current.store, depth)
KeepFirst(ret, store, depth) ==
    IF ret.store # NoStore \/ store = NoStore THEN ret ELSE Found(store, depth)
Deeper(ret, store, depth) ==
    IF store # NoStore THEN Found(store, depth) ELSE ret

RECURSIVE Walk(_, _, _, _)
Walk(tree, current, segments, ret) ==
    IF segments = <<>> THEN ret
    ELSE LET cs == Children(tree, current, Head(segments))
         IN  IF cs = {} THEN ret
             ELSE LET child == CHOOSE c \in cs : TRUE
                  IN  Walk(tree, child, Tail(segments),
                           Deeper(ret, tree[child], Len(child)))

\* PathEntry.lookup
lookup(tree, to_resolve) ==
    Walk(tree, <<>>, path_segments(to_resolve), Found(tree[<<>>], 0))

\* The registrations a registry holds.
Registered(map) ==
    {<<k, n>> \in UNION {{k} \X DOMAIN map[k] : k \in DOMAIN map} :
        map[k][n] # NoStore}

\* _iter_stores, as the set of stores it yields.
IterStores(map) == {map[r[1]][r[2]] : r \in Registered(map)}

ResolveCall(op, key, path, store, trailing, raised) ==
    [op |-> op, key |-> key, path |-> path, store |-> store,
     trailing |-> trailing, raised |-> raised]
NoResolve == ResolveCall("none", 0, <<>>, NoStore, <<>>, FALSE)

ScopeCalls(at, entered, exited, raised) ==
    [at |-> at, entered |-> entered, exited |-> exited, raised |-> raised]
NoScopeCalls == ScopeCalls("out", {}, {}, FALSE)

\* register(url, store), url = key://path.
Register(key, path, store) ==
    /\ reader = "registry" /\ r_last = NoResolve
    /\ LET entry == IF key \in DOMAIN r_map THEN r_map[key] ELSE PathEntry
           segments == path_segments(path)
           nodes == DOMAIN entry \cup
                       {SubSeq(segments, 1, k) : k \in 0..Len(segments)}
           grown == [n \in nodes |->
                       IF n \in DOMAIN entry THEN entry[n] ELSE NoStore]
       IN  /\ \/ Cardinality(Registered(r_map)) < MaxRegistrations
              \/ <<key, segments>> \in Registered(r_map)
           /\ r_map' = [k \in DOMAIN r_map \cup {key} |->
                          IF k = key THEN [grown EXCEPT ![segments] = store]
                          ELSE r_map[k]]
    /\ UNCHANGED <<r_last, r_scope, readerVars, splitVars, traceVars, moreVars, cacheVars>>

\* Mutant: the store's own prefix is left on the path.
KeepPrefix(path, prefix) == path

\* str.removeprefix
RemovePrefix(path, prefix) ==
    IF IsPrefix(prefix, path) THEN SubSeq(path, Len(prefix) + 1, Len(path)) ELSE path

\* store.prefix, or urlparse(store.url).path, of the stores that have one.
OwnPrefix(store) == IF store \in PrefixStores THEN <<"a">> ELSE <<"/", "a">>

\* path_after_prefix of resolve
PathAfterPrefix(store, path) ==
    IF store \in PrefixStores \cup UrlStores
    THEN LStrip(RemovePrefix(LStrip(path), LStrip(OwnPrefix(store))))
    ELSE LStrip(path)

\* resolve(url); raised stands for the ValueError of a URL no registration
\* matches.
Resolve(key, path) ==
    /\ reader = "registry" /\ r_last = NoResolve
    /\ LET result == IF key \in DOMAIN r_map THEN lookup(r_map[key], path)
                     ELSE Found(NoStore, 0)
       IN  r_last' = IF result.store # NoStore
                     THEN ResolveCall("resolve", key, path, result.store,
                                      PathAfterPrefix(result.store, path), FALSE)
                     ELSE ResolveCall("resolve", key, path, NoStore, <<>>, TRUE)
    /\ UNCHANGED <<r_map, r_scope, readerVars, splitVars, traceVars, moreVars, cacheVars>>

\* The caller has taken the result of resolve.
ResolveReturn ==
    /\ reader = "registry" /\ r_last # NoResolve
    /\ r_last' = NoResolve
    /\ UNCHANGED <<r_map, r_scope, readerVars, splitVars, traceVars, moreVars, cacheVars>>

\* The stores of a registry that have the async-scope methods.
Scoped(map) == IterStores(map) \cap AsyncStores

\* The stores a loop over _iter_stores has called when the call on store
\* failing raised (NoStore: no call raised).  The loop follows the insertion
\* order of the dicts, which r_map does not keep: reached is any set of the
\* other stores.
Called(map, failing, reached) ==
    IF failing = NoStore THEN Scoped(map) ELSE reached \cup {failing}

\* __aenter__: an exception of a store's __aenter__ leaves the async with
\* statement before its body, so __aexit__ is never called.
AEnter(failing, reached) ==
    /\ reader = "registry" /\ r_last = NoResolve /\ r_scope.at # "in"
    /\ failing \in Scoped(r_map) \cup {NoStore}
    /\ reached \subseteq Scoped(r_map) \ {failing}
    /\ failing = NoStore => reached = {}
    /\ r_scope' = ScopeCalls(IF failing = NoStore THEN "in" ELSE "failed",
                             Called(r_map, failing, reached), {},
                             failing # NoStore)
    /\ UNCHANGED <<r_map, r_last, readerVars, splitVars, traceVars, moreVars, cacheVars>>

\* __aexit__(exc_type, exc_val, exc_tb)
AExit(failing, reached) ==
    /\ reader = "registry" /\ r_last = NoResolve /\ r_scope.at = "in"
    /\ failing \in Scoped(r_map) \cup {NoStore}
    /\ reached \subseteq Scoped(r_map) \ {failing}
    /\ failing = NoStore => reached = {}
    /\ r_scope' = ScopeCalls("exited", r_scope.entered,
                             Called(r_map, failing, reached),
                             failing # NoStore)
    /\ UNCHANGED <<r_map, r_last, readerVars, splitVars, traceVars, moreVars, cacheVars>>

RegistryIdle == r_map = <<>> /\ r_last = NoResolve /\ r_scope = NoScopeCalls

RestIdle == ThreadsIdle /\ MemIdle /\ PrefetchIdle

MoreIdle == ParallelIdle /\ RestIdle

ExtIdle == SplitIdle /\ TraceIdle /\ RegistryIdle /\ MoreIdle

CacheIdle ==
    /\ c_obj_size = [q \in Paths |-> 1]
    /\ c_max_size = 1
    /\ CacheNew

ReadersIdle ==
    /\ reader = "none" /\ obj_size = 0 /\ last = NoCall /\ reqs = <<>>
    /\ BlockIdle /\ BufferedIdle /\ EagerIdle
    /\ ExtIdle

\* A wrapper of any max_size over a store holding NumPaths objects.  The
\* paths are interchangeable, so the objects are numbered by size.
CacheInit ==
    /\ c_obj_size \in [Paths -> 1..MaxObjSize]
    /\ \A q \in Paths : q + 1 \in Paths => c_obj_size[q] <= c_obj_size[q + 1]
    /\ c_max_size \in 1..MaxCacheSize
    /\ CacheNew
    /\ ReadersIdle

\* Callers of one wrapper, each making sync or async calls for the paths.
CacheCalls(callers, paths) ==
    \/ \E w \in callers, path \in paths : SyncCall(w, path)
    \/ \E w \in callers, path \in paths : AsyncCall(w, path)
    \/ \E w \in callers : AsyncFetched(w)
    \/ \E w \in callers, m \in Methods : Serve(w, m)

\* Any sequence of calls for any of the paths, and clear_cache, by one
\* caller; callers that run side by side are Workers.
Callers == {1}
CacheNext == CacheCalls(Callers, Paths) \/ ClearCache

SpecCache == CacheInit /\ [][CacheNext]_vars

\* One wrapper whose async calls may be cancelled or fail in their fetch.
CancelInit ==
    /\ c_obj_size \in [Paths -> 1..MaxObjSize]
    /\ \A q \in Paths : q + 1 \in Paths => c_obj_size[q] <= c_obj_size[q + 1]
    /\ c_max_size \in 1..MaxCacheSize
    /\ c_current_size = 0 /\ c_path_sizes = <<>> /\ c_cache = <<>>
    /\ c_recency = <<>>
    /\ w_pc = [w \in Workers |-> "idle"]
    /\ w_call = [w \in Workers |-> NoCacheCall]
    /\ c_last = NoServed
    /\ c_pre = NoSnapshot
    /\ c_scope = NoScope
    /\ ReadersIdle

CancelNext ==
    \/ CacheCalls(Callers, Paths)
    \/ \E w \in Callers, why \in {"cancelled", "fetch_failed"} : AsyncAbort(w, why)

SpecCancel == CancelInit /\ [][CancelNext]_vars

\* One wrapper whose cache is cleared while calls are in flight, with the
\* cache as the latest call found it on record.
SpecClear == CancelInit /\ [][CacheNext]_vars

\* A scoped use: with CachingReadableStore(...) as cached: <calls>.
ScopeNext ==
    \/ ScopeEnter
    \/ c_scope.at = "in" /\ CacheCalls(Callers, Paths)
    \/ \E raised \in BOOLEAN : ScopeExit(raised)

SpecScope == CacheInit /\ [][ScopeNext]_vars

\* Concurrent calls that are all for the same path, and nothing else.
SamePath == 1
SamePathNext == CacheCalls(Workers, {SamePath})

SpecSamePath == CacheInit /\ [][SamePathNext]_vars

\* Concurrent sync and async calls for two of the paths, and clear_cache.
BookPaths == {1, 2}
BookNext == CacheCalls(Workers, BookPaths) \/ ClearCache

\* The objects that are never asked for are all of one size.
BookInit == CacheInit /\ \A q \in Paths \ BookPaths : c_obj_size[q] = c_obj_size[2]

SpecBook == BookInit /\ [][BookNext]_vars

\* SplittingReadableStore.__init__ over a store holding one object.
SplitInit ==
    /\ obj_size \in 0..MaxSplitSize
    /\ reader = "split"
    /\ s_request_size \in 1..MaxRequestSize
    /\ s_max_concurrent_requests \in 1..MaxSplitRequests
    /\ s_last = NoSplitCall
    /\ last = NoCall /\ reqs = <<>>
    /\ BlockIdle /\ BufferedIdle /\ EagerIdle
    /\ CacheIdle /\ TraceIdle /\ RegistryIdle /\ MoreIdle

\* TracingReadableStore.__init__ with an empty RequestTrace.
TraceInit ==
    /\ obj_size \in 0..MaxObjSize
    /\ reader = "trace"
    /\ last = NoCall /\ reqs = <<>>
    /\ BlockIdle /\ BufferedIdle /\ EagerIdle
    /\ CacheIdle /\ SplitIdle /\ RegistryIdle /\ MoreIdle
    /\ t_trace = <<>> /\ t_last = NoTraceCall

\* The ranges a caller asks for: one or two parts.
TraceStarts == 0..1
TraceLengths == 1..MaxTraceLength
TraceParts(S) == {<<a>> : a \in S} \cup {<<a, b>> : a, b \in S}

TraceNext ==
    \E raised \in BOOLEAN :
        \/ \E op \in {"get", "get_async"} : TraceGet(op, raised)
        \/ \E op \in {"get_range", "get_range_async"}, start \in TraceStarts,
              length \in TraceLengths, range_style \in {"length", "end"} :
              TraceGetRange(op, start, length, range_style, raised)
        \/ \E op \in {"get_ranges", "get_ranges_async"},
              starts \in TraceParts(TraceStarts), lengths \in TraceParts(TraceLengths),
              range_style \in {"length", "end"} :
              /\ Len(starts) = Len(lengths)
              /\ TraceGetRanges(op, starts, lengths, range_style, raised)
        \/ \E op \in {"head", "head_async"} : TraceHead(op, raised)
        \/ (~raised /\ TraceClear)

SpecTrace == TraceInit /\ [][TraceNext]_vars

\* TracingReadableStore(store, trace, on_request=...) shared by the threads.
ThreadsInit ==
    /\ obj_size \in 0..MaxObjSize
    /\ reader = "threads"
    /\ last = NoCall /\ reqs = <<>>
    /\ BlockIdle /\ BufferedIdle /\ EagerIdle
    /\ CacheIdle /\ SplitIdle /\ TraceIdle /\ RegistryIdle /\ MoreIdle

ThreadsNext ==
    \/ \E t \in Threads :
          \/ \E method \in {"get", "get_range", "head"} : TracedEnter(t, method, 1)
          \/ \E parts \in 1..2 : TracedEnter(t, "get_ranges", parts)
          \/ TracedReturn(t)
          \/ TracedAdd(t)
          \/ TracedCallback(t)
    \/ Tick

SpecThreads == ThreadsInit /\ [][ThreadsNext]_vars

\* SyncBlockCache and AsyncBlockCache over one MemoryCache(block_size,
\* max_blocks).
MemInit ==
    /\ obj_size = MaxFileSize - 1
    /\ reader = "memcache"
    /\ last = NoCall /\ reqs = <<>>
    /\ BlockIdle /\ BufferedIdle /\ EagerIdle
    /\ CacheIdle /\ SplitIdle /\ TraceIdle /\ RegistryIdle
    /\ ParallelIdle /\ ThreadsIdle /\ PrefetchIdle
    /\ k_block_size \in 1..MaxBlockSize
    /\ k_max_blocks \in 1..MaxCachedBlocks
    /\ k_blocks = <<>>
    /\ k_pc = [t \in Tasks |-> "idle"]
    /\ k_call = [t \in Tasks |-> NoAwait]
    /\ k_last = NoRangeCall

MemNext ==
    \/ \E start \in 0..obj_size, length \in 1..MaxBlockSize, backend_raises \in BOOLEAN :
          SyncGetRange(start, start + length, backend_raises)
    \/ \E t \in Tasks, start \in 0..obj_size, length \in 1..MaxBlockSize :
          AsyncGetRange(t, start, start + length)
    \/ \E t \in Tasks, backend_raises \in BOOLEAN :
          AsyncGetRangeResume(t, backend_raises)

SpecMem == MemInit /\ [][MemNext]_vars

\* ObstorePrefetchReader(store, path, prefetch_size=..., chunk_size=...,
\* max_cached_chunks=...): size from head, position 0, nothing cached.
PrefetchInit ==
    /\ obj_size = MaxFileSize - 1
    /\ reader = "prefetch"
    /\ last = NoCall /\ reqs = <<>>
    /\ BlockIdle /\ BufferedIdle /\ EagerIdle
    /\ CacheIdle /\ SplitIdle /\ TraceIdle /\ RegistryIdle
    /\ ParallelIdle /\ ThreadsIdle /\ MemIdle
    /\ h_chunk_size \in 1..MaxBlockSize
    /\ h_prefetch_size \in 0..MaxRequestSize
    /\ h_max_cached_chunks \in 1..MaxCachedBlocks
    /\ h_pos = 0 /\ h_cache = <<>> /\ h_pending = {} /\ h_closed = "open"
    /\ h_task = [c \in Chunks |-> "none"]

PrefetchNext ==
    \/ \E n \in ReadSizes : PrefetchRead(n)
    \/ \E offset \in 0..MaxFileSize : PrefetchSeek(offset, 0)
    \/ \E c \in Chunks :
          \/ PrefetchTaskStart(c)
          \/ PrefetchTaskFetch(c)
          \/ PrefetchTaskStore(c)
          \/ PrefetchTaskFinally(c)
    \/ PrefetchClose
    \/ PrefetchCloseClear

SpecPrefetch == PrefetchInit /\ [][PrefetchNext]_vars

\* ObjectStoreRegistry() with no stores.
RegistryInit ==
    /\ reader = "registry" /\ obj_size = 0
    /\ last = NoCall /\ reqs = <<>>
    /\ BlockIdle /\ BufferedIdle /\ EagerIdle
    /\ CacheIdle /\ SplitIdle /\ TraceIdle /\ MoreIdle
    /\ r_map = <<>> /\ r_last = NoResolve /\ r_scope = NoScopeCalls

\* register and resolve; two stores suffice to tell registrations apart.
RegistryNext ==
    \/ \E key \in Keys, path \in UrlPaths, store \in AsyncStores :
          Register(key, path, store)
    \/ \E key \in Keys, path \in UrlPaths : Resolve(key, path)
    \/ ResolveReturn

SpecRegistry == RegistryInit /\ [][RegistryNext]_vars

\* register and resolve under one key, with stores that have a prefix
\* attribute, a url attribute, or neither.
ResolveNext ==
    \/ \E path \in UrlPaths, store \in {1} \cup PrefixStores \cup UrlStores :
          Register(1, path, store)
    \/ \E path \in UrlPaths : Resolve(1, path)
    \/ ResolveReturn

SpecResolve == RegistryInit /\ [][ResolveNext]_vars

\* register and the async scope: stores of both kinds, at the root of a key
\* and below it.
ScopePaths == {<<>>, <<"/", "a">>}

RegistryScopeNext ==
    \/ \E key \in Keys, path \in ScopePaths, store \in StoreIds :
          Register(key, path, store)
    \/ \E failing \in StoreIds \cup {NoStore}, reached \in SUBSET AsyncStores :
          AEnter(failing, reached)
    \/ \E failing \in StoreIds \cup {NoStore}, reached \in SUBSET AsyncStores :
          AExit(failing, reached)

SpecRegistryScope == RegistryInit /\ [][RegistryScopeNext]_vars

SplitNext == \E op \in {"get", "get_async"} : SplitGet(op)

SpecSplit == SplitInit /\ [][SplitNext]_vars

ReadersInit ==
    /\ obj_size \in 0..MaxFileSize
    /\ reader \in {"block", "buffered", "eager"}
    /\ last = NoCall
    /\ reqs = <<>>
    /\ IF reader = "block" THEN BlockNew ELSE BlockIdle
    /\ IF reader = "buffered" THEN BufferedNew ELSE BufferedIdle
    /\ IF reader = "eager" THEN EagerNew ELSE EagerIdle

Init == ReadersInit /\ CacheIdle /\ ExtIdle

BlockNext ==
    \/ \E n \in ReadSizes : BlockRead(n)
    \/ BlockReadAll
    \/ \E whence \in Whences : \E offset \in SeekOffsets(whence) : BlockSeek(offset, whence)
    \/ BlockClose
    \/ \E exc \in BOOLEAN : BlockExit(exc)

BufferedNext ==
    \/ \E n \in ReadSizes : BufferedRead(n)
    \/ BufferedReadAll
    \/ \E whence \in Whences : \E offset \in SeekOffsets(whence) : BufferedSeek(offset, whence)
    \/ BufferedClose
    \/ \E exc \in BOOLEAN : BufferedExit(exc)

EagerNext ==
    \/ EagerInit
    \/ \E n \in ReadSizes : EagerRead(n)
    \/ EagerReadAll
    \/ \E whence \in Whences : \E offset \in SeekOffsets(whence) : EagerSeek(offset, whence)
    \/ EagerClose
    \/ \E exc \in BOOLEAN : EagerExit(exc)

Next == BlockNext \/ BufferedNext \/ EagerNext

Spec == Init /\ [][Next]_vars

\* A block reader alone, with the blocks its reads cover recorded.
BlockInit ==
    /\ obj_size \in 0..MaxFileSize
    /\ reader = "block"
    /\ b_block_size \in 1..MaxBlockSize
    /\ b_max_cached_blocks \in 0..MaxCachedBlocks
    /\ b_position = 0 /\ b_size = NoSize /\ b_cache = <<>>
    /\ b_seen = Seen(TRUE, {}, <<>>)
    /\ BufferedIdle /\ EagerIdle
    /\ last = NoCall /\ reqs = <<>>
    /\ CacheIdle /\ ExtIdle

\* Reads of one byte or more from any position of the object (reached by
\* absolute seeks), readall and close.
BlockCacheNext ==
    \/ \E n \in 1..MaxRead : BlockRead(n)
    \/ BlockReadAll
    \/ \E offset \in 0..MaxFileSize : BlockSeek(offset, 0)
    \/ BlockClose

SpecBlock == BlockInit /\ [][BlockCacheNext]_vars

\* BlockStoreReader(store, path, block_size = c, max_cached_blocks = m) and a
\* ParallelStoreReader(store, path, chunk_size = c, max_cached_chunks = m).
ParallelInit ==
    /\ obj_size \in 0..MaxFileSize
    /\ reader = "parallel"
    /\ b_block_size \in 1..MaxBlockSize
    /\ b_max_cached_blocks \in 0..MaxCachedBlocks
    /\ b_position = 0 /\ b_size = NoSize /\ b_cache = <<>>
    /\ b_seen = NotSeen
    /\ BufferedIdle /\ EagerIdle
    /\ last = NoCall /\ reqs = <<>>
    /\ CacheIdle /\ SplitIdle /\ TraceIdle /\ RegistryIdle /\ RestIdle
    /\ p_kind \in ParallelKinds
    /\ p_position = 0 /\ p_size = NoSize /\ p_cache = <<>>
    /\ p_last = NoCall /\ p_reqs = <<>>

\* read(-1), reads of some bytes, readall, and seeks from the start and from
\* the end to the positions of the object.
ParallelNext ==
    \/ \E n \in (0 - 1)..MaxRead : ParallelRead(n)
    \/ ParallelReadAll
    \/ \E offset \in 0..MaxFileSize : ParallelSeek(offset, 0)
    \/ \E offset \in (0 - MaxBack)..0 : ParallelSeek(offset, 2)

SpecParallel == ParallelInit /\ [][ParallelNext]_vars

(***************************************************************************)
(* Store calls that raise.  A method of the block or buffered reader sends *)
(* its store calls in order; the k-th may raise, and the method then       *)
(* raises with whatever it had assigned before that call.                  *)
(***************************************************************************)
\* Mutant: the position is moved before the store call is made.
MovedBeforeCall(before, after) == after

\* self._position += len(data) comes after the store calls of read, and
\* self._position = self._get_size() + offset evaluates the call first.
PositionOnRaise(before, after) == before

\* self._size = self._store.head(...)["size"] has run iff a head precedes
\* the call that raises.
SizeOnRaise(size, file_size, rs, k) ==
    IF \E j \in 1..(k - 1) : rs[j].m = "head" THEN file_size ELSE size

\* BlockStoreReader.read, the k-th store call raising.
BlockReadFails(n, k) ==
    /\ reader = "block"
    /\ \E r \in {BlockReadResult(n)} :
           /\ k \in 1..Len(r.reqs)
           /\ b_position' = PositionOnRaise(b_position, r.position)
           /\ b_size' = SizeOnRaise(b_size, r.size, r.reqs, k)
           /\ last' = Call("read", n, 0, b_position, <<>>, 0, TRUE)
           /\ reqs' = SubSeq(r.reqs, 1, k)
    /\ UNCHANGED <<b_block_size, b_max_cached_blocks, b_cache, b_seen>>
    /\ UNCHANGED <<reader, obj_size, bufferedVars, eagerVars, cacheVars, extVars>>

\* BlockStoreReader.readall, get raising.
BlockReadAllFails ==
    /\ reader = "block"
    /\ b_position' = PositionOnRaise(b_position, Len(StoreGet))
    /\ last' = Call("readall", 0, 0, b_position, <<>>, 0, TRUE)
    /\ reqs' = <<ReqGet>>
    /\ UNCHANGED <<b_block_size, b_max_cached_blocks, b_size, b_cache, b_seen>>
    /\ UNCHANGED <<reader, obj_size, bufferedVars, eagerVars, cacheVars, extVars>>

\* BlockStoreReader.seek(offset, 2), head raising.
BlockSeekFails(offset) ==
    /\ reader = "block"
    /\ b_size = NoSize
    /\ b_position' = PositionOnRaise(b_position, ClampPosition(StoreHead + offset))
    /\ last' = Call("seek", offset, 2, b_position, <<>>, 0, TRUE)
    /\ reqs' = <<ReqHead>>
    /\ UNCHANGED <<b_block_size, b_max_cached_blocks, b_size, b_cache, b_seen>>
    /\ UNCHANGED <<reader, obj_size, bufferedVars, eagerVars, cacheVars, extVars>>

\* BufferedStoreReader.read, the k-th store call raising.
BufferedReadFails(n, k) ==
    /\ reader = "buffered"
    /\ \E r \in {BufferedReadResult(n)} :
           /\ k \in 1..Len(r.reqs)
           /\ f_position' = PositionOnRaise(f_position, r.position)
           /\ f_size' = SizeOnRaise(f_size, r.size, r.reqs, k)
           /\ last' = Call("read", n, 0, f_position, <<>>, 0, TRUE)
           /\ reqs' = SubSeq(r.reqs, 1, k)
    /\ UNCHANGED <<f_buffer_size, f_buffer, f_buffer_start>>
    /\ UNCHANGED <<reader, obj_size, blockVars, eagerVars, cacheVars, extVars>>

\* BufferedStoreReader.readall, get raising.
BufferedReadAllFails ==
    /\ reader = "buffered"
    /\ f_position' = PositionOnRaise(f_position, Len(StoreGet))
    /\ last' = Call("readall", 0, 0, f_position, <<>>, 0, TRUE)
    /\ reqs' = <<ReqGet>>
    /\ UNCHANGED <<f_buffer_size, f_size, f_buffer, f_buffer_start>>
    /\ UNCHANGED <<reader, obj_size, blockVars, eagerVars, cacheVars, extVars>>

\* BufferedStoreReader.seek(offset, 2), head raising.
BufferedSeekFails(offset) ==
    /\ reader = "buffered"
    /\ f_size = NoSize
    /\ f_position' = PositionOnRaise(f_position, ClampPosition(StoreHead + offset))
    /\ last' = Call("seek", offset, 2, f_position, <<>>, 0, TRUE)
    /\ reqs' = <<ReqHead>>
    /\ UNCHANGED <<f_buffer_size, f_size, f_buffer, f_buffer_start>>
    /\ UNCHANGED <<reader, obj_size, blockVars, eagerVars, cacheVars, extVars>>

\* A block or buffered reader over a store whose calls may raise.
FailInit == Init /\ reader \in {"block", "buffered"}

FailNext ==
    \/ \E n \in ReadSizes : BlockRead(n) \/ BufferedRead(n)
    \/ BlockReadAll \/ BufferedReadAll
    \/ \E offset \in 0..MaxFileSize : BlockSeek(offset, 0) \/ BufferedSeek(offset, 0)
    \/ \E n \in ReadSizes : \E k \in 1..2 : BlockReadFails(n, k)
    \/ BlockReadAllFails
    \/ \E offset \in SeekOffsets(2) : BlockSeekFails(offset)
    \/ \E n \in ReadSizes : \E k \in 1..2 : BufferedReadFails(n, k)
    \/ BufferedReadAllFails
    \/ \E offset \in SeekOffsets(2) : BufferedSeekFails(offset)

SpecFail == FailInit /\ [][FailNext]_vars

(***************************************************************************)
(* Properties of the readers.                                              *)
(***************************************************************************)
\* object_bytes[pos : min(pos + n, size)] for pos >= 0, n >= 0
ObjectSlice(pos, n) ==
    LET hi == Min(pos + n, obj_size)
    IN  IF hi <= pos THEN <<>> ELSE [i \in 1..(hi - pos) |-> object_bytes[pos + i]]

\* The reader is live: constructed and, for the eager reader (whose close()
\* drops the object's bytes), not closed.
Live == reader = "eager" => e_state = "open"

\* C1: content fidelity.  In every state a reader can be brought to by reads
\* and seeks, read(n) with n >= 0 at position pos returns exactly
\* object_bytes[pos : min(pos + n, size)].
C1_ContentFidelity ==
    (last.op = "read" /\ last.arg >= 0 /\ Live)
        => (~last.raised /\ last.data = ObjectSlice(last.pre, last.arg))

\* C1 witness: a block reader, positioned by a seek inside the object, served
\* a read spanning two bytes or more wholly from its block cache.
C1_Witness ==
    /\ reader = "block" /\ last.op = "read" /\ last.pre > 0
    /\ Len(last.data) >= 2 /\ reqs = <<>>
    /\ last.data = ObjectSlice(last.pre, last.arg)

\* C4: after every block reader operation the number of cached blocks is at
\* most max_cached_blocks.
C4_BoundedBlockCount == reader = "block" => Len(b_cache) <= b_max_cached_blocks

\* The number of blocks the last read covered.
BlocksSpanned ==
    IF Len(last.data) = 0 THEN 0
    ELSE (last.pre + Len(last.data) - 1) \div b_block_size
             - last.pre \div b_block_size + 1

\* C4 witness: one read spanned more blocks than the cache may hold, and the
\* cache is full afterwards.
C4_Witness ==
    /\ reader = "block" /\ last.op = "read"
    /\ b_max_cached_blocks >= 1
    /\ BlocksSpanned > b_max_cached_blocks
    /\ Len(b_cache) = b_max_cached_blocks

LastSeekTarget == SeekTarget(last.pre, obj_size, last.arg, last.whence)

\* C8: for whence 0, 1, 2 seek returns max(0, p), p the resolved target, an
\* immediately following tell() returns the same, and a negative target does
\* not raise.
C8_SeekClamps ==
    (last.op = "seek" /\ last.whence \in {0, 1, 2} /\ Live)
        => /\ ~last.raised
           /\ last.val = Max(0, LastSeekTarget)
           /\ Tell = Max(0, LastSeekTarget)

(***************************************************************************)
(* Properties of the caching wrapper.                                      *)
(***************************************************************************)
AllReturned == \A w \in Workers : w_pc[w] = "idle"
KeyPos(seq, x) == CHOOSE k \in 1..Len(seq) : seq[k] = x

\* C2: after every operation on the wrapper returns, cache_size <= max_size.
\* (Refuted: one object larger than max_size is cached whole.)
C2_BoundedSize == AllReturned => cache_size <= c_max_size

\* C3: under any interleaving of concurrent sync and async calls for the
\* same path, every call returns the object's bytes, and once all calls
\* have returned the path is cached exactly once (one entry, one stored
\* object with the object's bytes) and cache_size is the object's size.
C3_SamePathConverges ==
    /\ c_last.result # "not_found"
    /\ c_last.result = "bytes" => c_last.data = c_last.want
    /\ (AllReturned /\ c_last.result # "none") =>
          /\ cached_paths = <<SamePath>>
          /\ DOMAIN c_cache = {SamePath}
          /\ c_cache[SamePath] = ObjectData(SamePath)
          /\ cache_size = c_obj_size[SamePath]

\* Two calls for the path fetched it redundantly; one has returned the
\* bytes, the other is past its insertion.
C3_Witness ==
    /\ c_last.result = "bytes" /\ c_last.nreq = 1
    /\ \E w \in Workers : w_pc[w] = "serving" /\ w_call[w].nreq = 1
    /\ cached_paths = <<SamePath>>

\* A step in which caller w finds its path already cached.
CacheHit(w) ==
    /\ w_pc[w] \in {"idle", "fetching"} /\ w_pc'[w] = "serving"
    /\ w_call'[w].path \in PathKeys(c_path_sizes)

\* C9: an access to a cached path makes it the most recently used entry
\* (the last of cached_paths), and every entry a step removes was accessed
\* less recently than every entry that survives the step.
C9_Step ==
    /\ \A w \in Workers :
          CacheHit(w) =>
             /\ cached_paths' # <<>>
             /\ cached_paths'[Len(cached_paths')] = w_call'[w].path
             /\ PathKeys(c_path_sizes') = PathKeys(c_path_sizes)
    /\ \A gone \in PathKeys(c_path_sizes) \ PathKeys(c_path_sizes') :
          \A kept \in PathKeys(c_path_sizes) \cap PathKeys(c_path_sizes') :
             KeyPos(c_recency, gone) < KeyPos(c_recency, kept)
    /\ cached_paths' = c_recency'
C10_Step ==
    \A w \in Workers :
       /\ (w_pc[w] = "idle" /\ w_pc'[w] # "idle") =>
             LET path == w_call'[w].path
             IN  IF path \in PathKeys(c_path_sizes)
                 THEN /\ w_call'[w].nreq = 0
                      /\ w_pc'[w] = "serving"
                      /\ c_cache' = c_cache
                 ELSE /\ w_call'[w].nreq = 1
                      /\ w_pc'[w] = "serving" =>
                            /\ path \in DOMAIN c_cache'
                            /\ c_cache'[path] = ObjectData(path)
       /\ (w_pc[w] = "fetching" /\ w_pc'[w] # "fetching") =>
             /\ w_pc'[w] = "serving"
             /\ w_call'[w] = w_call[w]
             /\ w_call[w].path \in DOMAIN c_cache'
             /\ c_cache'[w_call[w].path] = ObjectData(w_call[w].path)
       /\ (w_pc[w] = "serving" /\ w_pc'[w] # "serving") =>
             /\ c_last'.nreq = w_call[w].nreq
             /\ c_last'.path = w_call[w].path
             /\ w_call[w].path \in DOMAIN c_cache =>
                   /\ c_last'.result = "bytes"
                   /\ c_last'.data = c_last'.want
             /\ UNCHANGED <<c_path_sizes, c_current_size, c_cache>>
C10_WholeObjectFetch == [][C10_Step]_vars

\* A path was fetched and served by one call, and a later call for it found
\* it cached.
C10_Witness ==
    /\ c_last.result = "bytes" /\ c_last.nreq = 1 /\ c_last.data = c_last.want
    /\ c_last.m = "get_range"
    /\ \E w \in Workers :
          /\ w_pc[w] = "serving" /\ w_call[w].nreq = 0
          /\ w_call[w].path = c_last.path

\* C11: when an async call is cancelled, or its fetch fails, the cache
\* (entries, their order, cache_size, stored bytes) is as the call found it.
\* (Refuted: a call cancelled at the await of self._cache.<method>_async has
\* already inserted the object, or moved the entry, in _ensure_cached_async.)
Abandoned == c_last.result \in {"cancelled", "fetch_failed"}
C11_CancelLeavesCacheUntouched ==
    (Abandoned /\ AllReturned) => CurrentBook = c_pre.book

\* What does hold: a call abandoned before its fetch completed (it sent the
\* get and had not found the path cached) leaves the cache as it found it
\* when no other caller ran meanwhile.
C11_AbortDuringFetchUntouched ==
    [][\A w \in Workers :
          (w_pc[w] = "fetching" /\ w_pc'[w] = "idle") =>
             /\ UNCHANGED <<c_path_sizes, c_current_size, c_cache, c_recency>>
             /\ (Cardinality(Callers) = 1 => CurrentBook = c_pre.book)]_vars

\* C12: when the with-block of a wrapper has ended, normally or because
\* the body raised, the cache is empty (cache_size = 0, no cached paths, no
\* stored bytes), and the body's exception, if any, has propagated.
C12_ScopeExitClears ==
    c_scope.at = "exited" =>
       /\ cache_size = 0
       /\ cached_paths = <<>>
       /\ DOMAIN c_cache = {}
       /\ c_scope.propagated = c_scope.raised

\* The body fetched and was served an object, then raised; the scope has
\* ended and the exception has propagated.
C12_Witness ==
    /\ c_scope.at = "exited" /\ c_scope.raised /\ c_scope.propagated
    /\ c_last.result = "bytes" /\ c_last.nreq = 1
    /\ cache_size = 0

(***************************************************************************)
(* Properties of the block reader's cache.                                 *)
(***************************************************************************)
\* The step is a read() that returned data.
ReadStep == reader = "block" /\ last'.op = "read" /\ last'.data # <<>>
ReadBlocks == BlocksOfRead(b_position, last'.data, b_block_size)

\* C13 as stated: a read whose byte range lies within blocks that earlier
\* reads have covered issues no store request.
C13_RereadWithinCovered ==
    [][(ReadStep /\ ReadBlocks \subseteq b_seen.blocks) => reqs' = <<>>]_vars

\* C13 amended: a read whose byte range lies within blocks that are in the
\* block cache (covered by earlier reads and neither evicted nor dropped by
\* close) issues no store request and leaves the set of cached blocks as
\* it is.
C13_RereadWithinCached ==
    [][(ReadStep /\ ReadBlocks \subseteq CacheKeys(b_cache)) =>
          /\ reqs' = <<>>
          /\ CacheKeys(b_cache') = CacheKeys(b_cache)]_vars

\* A read of two blocks or more was served without a request, while some
\* block covered earlier is no longer cached.
C13_Witness ==
    /\ reader = "block" /\ last.op = "read" /\ reqs = <<>>
    /\ Cardinality(BlocksOfRead(last.pre, last.data, b_block_size)) >= 2
    /\ b_seen.blocks \ CacheKeys(b_cache) # {}

\* The order the spec prescribes after a read touching the blocks lo..hi:
\* the untouched entries in their old order, then the touched blocks in
\* ascending order, of which the last max_cached_blocks remain.
ExpectedOrder(order, touched, max_cached_blocks) ==
    LET lo == CHOOSE i \in touched : \A j \in touched : i <= j
        all == SelectSeq(order, LAMBDA i : i \notin touched)
                  \o [k \in 1..Cardinality(touched) |-> lo + k - 1]
        drop == Max(0, Len(all) - max_cached_blocks)
    IN  SubSeq(all, drop + 1, Len(all))

\* C14: every block a read touches, cached or freshly fetched, becomes most
\* recently used, and the eviction that follows the insertions removes the
\* least recently used blocks first; other calls leave the order alone
\* (close empties the cache).
C14_BlockLRUOrder ==
    [][IF ReadStep
       THEN CacheOrder(b_cache') =
               ExpectedOrder(CacheOrder(b_cache), ReadBlocks, b_max_cached_blocks)
       ELSE b_cache' = b_cache \/ (last'.op = "close" /\ b_cache' = <<>>)]_vars

\* The cache is full, and a block fetched before another was touched again
\* by a read served from the cache: recency and insertion order disagree,
\* so the next eviction removes the block fetched later.
C14_Witness ==
    /\ reader = "block" /\ last.op = "read" /\ reqs = <<>> /\ last.data # <<>>
    /\ b_max_cached_blocks >= 2 /\ Len(b_cache) = b_max_cached_blocks
    /\ CacheOrder(b_cache) # b_seen.inserted
    /\ b_seen.inserted[1] = CacheOrder(b_cache)[Len(b_cache)]

(***************************************************************************)
(* The splitting wrapper.                                                  *)
(***************************************************************************)
\* C15: whenever get splits, the parts of its single get_ranges call start
\* at 0, each starts where the previous one ends, the last ends at the
\* object's size, and a result that is returned holds the object's bytes.
C15_SplitCoverage ==
    (reader = "split" /\ s_last.op # "none" /\ s_last.split) =>
        LET starts == s_last.starts
            lengths == s_last.lengths
            n == Len(starts)
        IN  /\ starts[1] = 0
            /\ \A k \in 1..(n - 1) : starts[k + 1] = starts[k] + lengths[k]
            /\ starts[n] + lengths[n] = obj_size
            /\ ~s_last.raised => s_last.data = object_bytes

(***************************************************************************)
(* The tracing wrapper.                                                    *)
(***************************************************************************)
\* C16: when the delegate of a store operation raises, the records of that
\* call (one, or one per part of a get_ranges) have been appended to the
\* trace by the time the exception reaches the caller.
C16_FailedCallsRecorded ==
    (reader = "trace" /\ t_last.raised) =>
        Len(t_trace) = t_last.before + t_last.parts

\* The operations that run inside _record do record their failed calls.
C16_RecordContextRecordsFailures ==
    (reader = "trace" /\ t_last.raised
        /\ t_last.op \notin {"get_ranges", "get_ranges_async"}) =>
        /\ Len(t_trace) = t_last.before + 1
        /\ t_trace[Len(t_trace)].method \in {"get", "get_range", "head"}

(***************************************************************************)
(* Leaving a reader's scope.                                               *)
(***************************************************************************)
\* C17: right after close(), or after __exit__ ended a with-block whether
\* or not its body raised, the block cache of a block reader and the
\* buffer of a buffered or an eager reader are empty.
C17_ScopeExitRelease ==
    last.op \in {"close", "exit"} =>
        /\ reader = "block" => b_cache = <<>>
        /\ reader = "buffered" => f_buffer = <<>>
        /\ reader = "eager" => e_buffer = <<>>

\* A with-block whose body raised was left by a reader that held data.
C17_Witness ==
    /\ last.op = "exit" /\ last.raised /\ last.val > 0
    /\ reader \in {"block", "buffered", "eager"}

(***************************************************************************)
(* The registry.                                                           *)
(***************************************************************************)
\* The registrations under the key of the resolved URL whose segments are a
\* prefix of the segments of its path.
Candidates ==
    {r \in Registered(r_map) :
        r[1] = r_last.key /\ IsPrefix(r[2], path_segments(r_last.path))}

\* C18: whenever some registration under the URL's (scheme, authority) is a
\* path-segment prefix of the URL's path, resolve returns the store of the
\* longest such registration.
C18_LongestPrefixMatch ==
    (reader = "registry" /\ r_last.op = "resolve" /\ Candidates # {}) =>
        LET longest == CHOOSE r \in Candidates :
                           \A q \in Candidates : Len(q[2]) <= Len(r[2])
        IN  ~r_last.raised /\ r_last.store = r_map[longest[1]][longest[2]]

\* Two registrations with different stores are both segment prefixes of
\* the resolved path, and resolve returned the store of the longer one.
C18_Witness ==
    /\ reader = "registry" /\ r_last.op = "resolve" /\ ~r_last.raised
    /\ \E r, q \in Candidates :
          /\ Len(r[2]) < Len(q[2])
          /\ r_map[r[1]][r[2]] # r_map[q[1]][q[2]]
          /\ r_last.store = r_map[q[1]][q[2]]

\* The path a registration at node was made with: "/" before each segment.
RECURSIVE Join(_)
Join(node) ==
    IF node = <<>> THEN <<>> ELSE <<"/">> \o Head(node) \o Join(Tail(node))

\* C19: resolve returns a store only if it is registered at a path whose
\* segments are a prefix of the URL's segments, and raises the lookup error
\* exactly when no registration is; a registration whose path is a prefix
\* of the URL's path only as a string never matches.
C19_SegmentBounded ==
    (reader = "registry" /\ r_last.op = "resolve") =>
        /\ r_last.raised <=> Candidates = {}
        /\ ~r_last.raised =>
              \E r \in Candidates : r_last.store = r_map[r[1]][r[2]]

\* A registration is a prefix of the resolved path as a string but not by
\* segments (/a against /aa), and the resolution fell back to a shorter
\* registered prefix.
C19_Witness ==
    /\ reader = "registry" /\ r_last.op = "resolve" /\ ~r_last.raised
    /\ \E r \in Registered(r_map) :
          /\ r[1] = r_last.key
          /\ IsPrefix(Join(r[2]), r_last.path)
          /\ r \notin Candidates
          /\ r_map[r[1]][r[2]] # r_last.store

\* C20: a scope that is entered has called __aenter__ on every registered
\* store that has it, and leaving the scope calls __aexit__ on every
\* registered store that has it.
C20_ScopeCallsEveryStore ==
    [][/\ (r_scope' # r_scope /\ r_scope'.at = "in") =>
             r_scope'.entered = Scoped(r_map)
       /\ (r_scope' # r_scope /\ r_scope'.at = "exited") =>
             r_scope'.exited = Scoped(r_map)]_vars

\* When no store's __aenter__ or __aexit__ raises, the stores called are
\* exactly the registered stores that have the methods.
C20_ScopeCallsEveryStoreUnlessRaised ==
    [][(r_scope' # r_scope /\ ~r_scope'.raised) =>
          /\ r_scope'.at = "in" => r_scope'.entered = Scoped(r_map)
          /\ r_scope'.at = "exited" => r_scope'.exited = Scoped(r_map)]_vars

\* Stores without the async-scope methods are never called.
C20_PlainStoresUntouched ==
    (r_scope.entered \cup r_scope.exited) \cap PlainStores = {}

(***************************************************************************)
(* The parallel readers.                                                   *)
(***************************************************************************)
\* C21: after every call, a ParallelStoreReader of any of the three classes
\* has returned what the block reader returned for the same call (bytes,
\* position, exception or not), stands at the same position, and has sent
\* the same store requests.
C21_ParallelIsBlock ==
    reader = "parallel" =>
        /\ p_last = last
        /\ p_position = b_position
        /\ p_reqs = reqs

\* The two classes of the readers package do behave as the block reader.
C21_ReadersPackageParallelIsBlock ==
    (reader = "parallel" /\ p_kind # "obspec") =>
        /\ p_last = last
        /\ p_position = b_position
        /\ p_reqs = reqs
        /\ p_cache = b_cache

(***************************************************************************)
(* The requests of the block and buffered readers.                         *)
(***************************************************************************)
RECURSIVE Ascending(_)
Ascending(S) ==
    IF S = {} THEN <<>>
    ELSE LET m == CHOOSE i \in S : \A j \in S : i <= j
         IN  <<m>> \o Ascending(S \ {m})

RequestsBy(rs, m) == SelectSeq(rs, LAMBDA r : r.m = m)

\* The blocks covering the bytes read(n) is to return from position, n = -1
\* standing for all the bytes up to the end.
Covering(position, n, block_size, size) ==
    LET end == IF n = -1 THEN size ELSE Min(position + n, size)
    IN  IF end <= position THEN {}
        ELSE (position \div block_size)..((end - 1) \div block_size)

\* C22: a read of the block reader sends at most one get_ranges; its parts
\* are the ranges [i*block_size, min((i+1)*block_size, size)) of the covering
\* blocks that are not cached, in ascending order, and there is no
\* get_ranges when every covering block is cached.
C22_Step ==
    (reader = "block" /\ last'.op = "read") =>
        LET uncached == Ascending(Covering(b_position, last'.arg, b_block_size,
                                           obj_size) \ CacheKeys(b_cache))
            starts == [k \in 1..Len(uncached) |-> uncached[k] * b_block_size]
            lengths == [k \in 1..Len(uncached) |->
                          Min((uncached[k] + 1) * b_block_size, obj_size) - starts[k]]
        IN  RequestsBy(reqs', "get_ranges") =
               IF uncached = <<>> THEN <<>> ELSE <<ReqGetRanges(starts, lengths)>>
C22_OneGetRangesOfUncached == [][C22_Step]_vars

\* A read covering several blocks fetched some of them and found the others
\* in the cache.
C22_Witness ==
    /\ reader = "block" /\ last.op = "read"
    /\ RequestsBy(reqs, "get_ranges") # <<>>
    /\ Len(RequestsBy(reqs, "get_ranges")[1].starts) <
          Cardinality(BlocksOfRead(last.pre, last.data, b_block_size))

\* The step is a read(0) on the block reader.
ReadZeroStep == reader = "block" /\ last'.op = "read" /\ last'.arg = 0

\* C23: read(0) on a block reader in any state, a freshly constructed one
\* included, returns no bytes, sends no store request, and leaves the block
\* cache and the position as they are.
C23_ReadZeroNoEffect ==
    [][ReadZeroStep =>
          /\ last'.data = <<>> /\ ~last'.raised
          /\ reqs' = <<>>
          /\ b_cache' = b_cache /\ b_position' = b_position]_vars

\* read(0) does return no bytes and leave cache and position alone, and
\* sends no request once the size is known.
C23_ReadZeroNoEffectOnceSized ==
    [][ReadZeroStep =>
          /\ last'.data = <<>> /\ ~last'.raised
          /\ b_size # NoSize => reqs' = <<>>
          /\ b_cache' = b_cache /\ b_position' = b_position]_vars


\* The step is a read(-1) or a readall on the block or the buffered reader.
ReadToEndStep ==
    /\ reader \in {"block", "buffered"}
    /\ \/ last'.op = "read" /\ last'.arg = -1
       \/ last'.op = "readall"

\* C24: on the buffered and the block reader, read(-1) and readall send no
\* get_range and no get_ranges request (a plain get serves them), and on the
\* block reader they leave the block cache as it is.
C24_ReadToEndByPlainGet ==
    [][ReadToEndStep =>
          /\ RequestsBy(reqs', "get_range") = <<>>
          /\ RequestsBy(reqs', "get_ranges") = <<>>
          /\ b_cache' = b_cache]_vars

\* readall alone is served by one plain get and leaves the block cache as it
\* is, on both readers.
C24_ReadAllByPlainGet ==
    [][(reader \in {"block", "buffered"} /\ last'.op = "readall") =>
          reqs' = <<ReqGet>> /\ b_cache' = b_cache]_vars

\* The bytes [position, position + n) all lie in the buffer.
InBuffer(position, n) ==
    (position..(position + n - 1)) \subseteq
        (f_buffer_start..(f_buffer_start + Len(f_buffer) - 1))

\* What the sentence on read(n) says of one read of the buffered reader.
BufferedReadAsStated(n) ==
    IF InBuffer(f_position, n)
    THEN /\ reqs' = <<>>
         /\ last'.data = PySlice(f_buffer, f_position - f_buffer_start,
                                 f_position - f_buffer_start + n)
         /\ f_buffer' = f_buffer /\ f_buffer_start' = f_buffer_start
    ELSE /\ RequestsBy(reqs', "get_range") =
               <<ReqGetRange(f_position,
                             Min(Max(n, f_buffer_size), obj_size - f_position))>>
         /\ RequestsBy(reqs', "get") = <<>>
         /\ f_buffer' = StoreGetRange(f_position, Max(n, f_buffer_size))
         /\ f_buffer_start' = f_position
         /\ last'.data = PySlice(f_buffer', 0, n)

\* C25: a read(n), n >= 0, of the buffered reader is served from the buffer
\* with no store request when [position, position + n) lies in the buffer;
\* otherwise it sends exactly one get_range at position of max(n, buffer_size)
\* bytes clamped to the end of the file, replaces the buffer by the fetched
\* bytes and returns their first n bytes.
C25_BufferedRead ==
    [][(reader = "buffered" /\ last'.op = "read" /\ last'.arg >= 0) =>
          BufferedReadAsStated(last'.arg)]_vars

\* The same for reads of one byte or more that start before the end of the
\* file.
C25_BufferedReadBeforeEnd ==
    [][(reader = "buffered" /\ last'.op = "read" /\ last'.arg >= 1
          /\ f_position < obj_size) =>
          BufferedReadAsStated(last'.arg)]_vars

\* The reader has determined the size of its object.
SizeKnown ==
    CASE reader = "block" -> b_size # NoSize
      [] reader = "buffered" -> f_size # NoSize
      [] reader = "eager" -> e_state # "new"
      [] OTHER -> TRUE

C28_SplitPlan ==
    (reader = "split" /\ s_last.op # "none") =>
        LET N == CeilDiv(obj_size, s_request_size)
            parts == Min(N, s_max_concurrent_requests)
            part_size == IF N > s_max_concurrent_requests
                         THEN CeilDiv(obj_size, s_max_concurrent_requests)
                         ELSE s_request_size
            sent == RequestsBy(reqs, "get_ranges")
        IN  IF obj_size = 0 \/ N <= 1
            THEN RequestsBy(reqs, "get") = <<ReqGet>> /\ sent = <<>>
            ELSE /\ RequestsBy(reqs, "get") = <<>>
                 /\ Len(sent) = 1
                 /\ Len(sent[1].starts) = parts /\ Len(sent[1].lengths) = parts
                 /\ \A k \in 1..parts :
                       /\ sent[1].starts[k] = (k - 1) * part_size
                       /\ sent[1].lengths[k] = Min(part_size, obj_size - sent[1].starts[k])

\* A get split an object whose N exceeded max_concurrent_requests into
\* several parts.
C28_Witness ==
    /\ reader = "split" /\ s_last.op = "get" /\ s_last.split
    /\ CeilDiv(obj_size, s_request_size) > s_max_concurrent_requests
    /\ Len(s_last.starts) >= 2

\* C29: every part of a get_ranges sent by the splitting wrapper or by the
\* eager reader starts before the end of the object and is at least one byte
\* long.
C29_PartsInsideAndNonEmpty ==
    reader \in {"split", "eager"} =>
        \A j \in 1..Len(reqs) :
            reqs[j].m = "get_ranges" =>
                \A k \in 1..Len(reqs[j].starts) :
                    /\ reqs[j].starts[k] < obj_size
                    /\ reqs[j].lengths[k] >= 1

\* The parts holding byte b of a get_ranges request.
PartsHolding(req, b) ==
    {k \in 1..Len(req.starts) :
        req.starts[k] <= b /\ b < req.starts[k] + req.lengths[k]}

Appended == SubSeq(t_trace', Len(t_trace) + 1, Len(t_trace'))

\* The method a traced operation records.
MethodOf(op) ==
    CASE op \in {"get", "get_async"} -> "get"
      [] op \in {"get_range", "get_range_async"} -> "get_range"
      [] op \in {"get_ranges", "get_ranges_async"} -> "get_ranges"
      [] OTHER -> "head"

\* A step of a traced call leaves the old records in place and appends one
\* record per part, each of the call's method with end = start + length, the
\* records of a get_ranges in the order of its starts.
TracedCallAppends ==
    /\ SubSeq(t_trace', 1, Len(t_trace)) = t_trace
    /\ Len(Appended) = t_last'.parts
    /\ \A k \in 1..Len(Appended) :
          /\ Appended[k].method = MethodOf(t_last'.op)
          /\ Appended[k].end = Appended[k].start + Appended[k].length
    /\ \A op \in {"get_ranges", "get_ranges_async"},
          starts \in TraceParts(TraceStarts), lengths \in TraceParts(TraceLengths),
          range_style \in {"length", "end"}, raised \in BOOLEAN :
          (Len(starts) = Len(lengths)
             /\ TraceGetRanges(op, starts, lengths, range_style, raised)) =>
              /\ [k \in 1..Len(Appended) |-> Appended[k].start] = starts
              /\ [k \in 1..Len(Appended) |-> Appended[k].length] = lengths

\* C31: every traced call appends exactly one record for get, get_range and
\* head and exactly N records for a get_ranges of N ranges, in the order of
\* its starts, each with end = start + length; the records already in the
\* trace stay as they are, in place, until clear().
C31_TraceAppends ==
    [][(reader = "trace" /\ t_last'.op \notin {"none", "clear"}) =>
          TracedCallAppends]_vars

\* The same for the calls whose delegate returns.
C31_ReturnedCallAppends ==
    [][(reader = "trace" /\ t_last'.op \notin {"none", "clear"}
          /\ ~t_last'.raised) => TracedCallAppends]_vars

\* C32: every call of on_request is made with the very record the calling
\* thread has just appended, so each appended record is passed to the
\* callback exactly once, also with several threads on one trace.
C32_CallbackGetsOwnRecord ==
    \A i \in 1..Len(n_callbacks) : n_callbacks[i].arg = n_callbacks[i].appended

\* C33: every record of the trace carries the time.time() taken at the entry
\* of its call, before the delegate was called, the records of a get_ranges
\* included.
C33_TimestampAtEntry ==
    \A k \in 1..Len(n_requests) : n_requests[k].timestamp = n_requests[k].entered

\* The records written by _record (get, get_range, head) do carry the time
\* of entry.
C33_RecordContextTimestampAtEntry ==
    \A k \in 1..Len(n_requests) :
        n_requests[k].method # "get_ranges" =>
            n_requests[k].timestamp = n_requests[k].entered

\* C34: a get / get_range / get_ranges on the caching wrapper for an object
\* of the wrapped store returns the bytes of that object, whatever other
\* threads do to the cache between the call's locked section and its serve
\* step (inserting other objects, clear_cache).
C34_ServeSucceeds ==
    c_last.m \in Methods => c_last.result = "bytes" /\ c_last.data = c_last.want

\* A call that does return bytes returns the bytes of its object.
C34_ServedBytesAreTheObject ==
    (c_last.m \in Methods /\ c_last.result = "bytes") => c_last.data = c_last.want

\* The step completes the fetch of an async call that found entries in the
\* cache when it started and finds none now: clear_cache (or the scope
\* exit) has returned in between, inserts leaving no cache empty.
FetchedAfterClear(w) ==
    /\ w_pc[w] = "fetching" /\ w_pc'[w] = "serving"
    /\ c_pre.on /\ c_pre.w = w /\ c_pre.book.path_sizes # <<>>
    /\ c_path_sizes = <<>>

\* C35: an async fetch that was in flight when the cache was cleared does
\* not insert its result into the cleared cache, which stays empty.
C35_ClearedStaysEmpty ==
    [][\A w \in Workers :
          FetchedAfterClear(w) =>
              c_path_sizes' = <<>> /\ c_current_size' = 0 /\ DOMAIN c_cache' = {}]_vars

\* The sum of the recorded per-path sizes.
RECURSIVE SumSizes(_)
SumSizes(path_sizes) ==
    IF path_sizes = <<>> THEN 0
    ELSE Head(path_sizes).size + SumSizes(Tail(path_sizes))

\* C39: between the locked sections of the wrapper, under any interleaving
\* of sync calls, async calls and clear_cache, the byte counter is the sum of
\* the recorded per-path sizes, the recorded paths are the objects held in
\* the internal memory store, no path is recorded twice, and each held object
\* has its recorded length.
C39_Bookkeeping ==
    /\ c_current_size = SumSizes(c_path_sizes)
    /\ PathKeys(c_path_sizes) = DOMAIN c_cache
    /\ Cardinality(PathKeys(c_path_sizes)) = Len(c_path_sizes)
    /\ \A k \in 1..Len(c_path_sizes) :
          Len(c_cache[c_path_sizes[k].path]) = c_path_sizes[k].size

\* Two calls are in flight, one of them an async call between its locked
\* sections, over a cache holding an object.
C39_Witness ==
    /\ \E w \in Workers : w_pc[w] = "fetching"
    /\ \E w \in Workers : w_pc[w] = "serving"
    /\ c_path_sizes # <<>> /\ c_current_size > 0

\* The registration resolve matched: the longest candidate.
Matched ==
    CHOOSE r \in Candidates : \A q \in Candidates : Len(q[2]) <= Len(r[2])

\* What is left of a path after its first depth segments, without the
\* slashes before it.
RECURSIVE SuffixAfter(_, _)
SuffixAfter(path, depth) ==
    LET rest == LStrip(path)
    IN  IF depth = 0 \/ rest = <<>> THEN rest
        ELSE SuffixAfter(SubSeq(rest, Len(Head(path_segments(rest))) + 1, Len(rest)),
                         depth - 1)

C37_SecondLookupYieldsBytes == k_last.outcome # "assertion_error"

\* C38: once close() of the ObstorePrefetchReader has returned, the chunk
\* cache is empty and stays empty, whatever the background prefetch tasks
\* do afterwards.
C38_ClosedCacheStaysEmpty == h_closed = "closed" => h_cache = <<>>

\* C40: after any sequence of read / readall / seek calls, every entry i of
\* the BlockStoreReader cache lies inside the object (i * block_size < size)
\* and holds exactly object_bytes[i * block_size : min((i + 1) * block_size,
\* size)]; distinct entries are distinct blocks, so they cover disjoint
\* byte intervals, and only the final block of the object may be shorter
\* than block_size.
C40_BlockCacheContent ==
    reader = "block" =>
        /\ \A k \in 1..Len(b_cache) :
              LET i == b_cache[k].idx
              IN  /\ i >= 0 /\ i * b_block_size < obj_size
                  /\ b_cache[k].data =
                        PySlice(object_bytes, i * b_block_size,
                                Min((i + 1) * b_block_size, obj_size))
                  /\ Len(b_cache[k].data) < b_block_size =>
                        (i + 1) * b_block_size > obj_size
        /\ \A k, l \in 1..Len(b_cache) : k # l => b_cache[k].idx # b_cache[l].idx

\* A read that fetched two blocks at once left a full block and the short
\* final block of the object in the cache.
C40_Witness ==
    /\ reader = "block" /\ last.op = "read" /\ ~last.raised
    /\ Len(b_cache) >= 2
    /\ \E k \in 1..Len(reqs) : reqs[k].m = "get_ranges" /\ Len(reqs[k].starts) >= 2
    /\ \E k \in 1..Len(b_cache) :
          /\ 0 < Len(b_cache[k].data) /\ Len(b_cache[k].data) < b_block_size
          /\ (b_cache[k].idx + 1) * b_block_size > obj_size
====
